---- MODULE Spec2Model ----
(***************************************************************************)
(* Model of the Bible RAG retrieval core: the min-words chunker            *)
(* (preprocessing/chunking.py), book/chapter extraction                    *)
(* (retrieval/preprocessing_query.py, retrieval/preprocessing_retrieval.py)*)
(* the retrieval adapter (retrieval/retrieve.py) and the reranker's blend  *)
(* weight (retrieval/reranking.py, retrieval/query_modes.py).              *)
(*                                                                         *)
(* Strings are sequences of one-character strings, so that len(), slicing, *)
(* str.split(), str.join() and character-level matching are computed.      *)
(***************************************************************************)
EXTENDS Integers, Sequences, FiniteSets, TLC

VARIABLES
    \* ---- chunker (preprocessing/chunking.py) ----
    fn,                 \* which function runs: "min_first" | "min_first_with_indexing"
    verses,             \* parameter verses: list of verse dicts
    min_words,          \* parameter min_words
    chunk_overlap,      \* parameter chunk_overlap
    i,                  \* loop index (0-based, as in the source)
    current_chunk,      \* list of verse dicts being accumulated
    current_word_count, \* running word count
    chunks,             \* list of emitted chunk dicts
    members,            \* history: the value of current_chunk at each emission
    in_loop,            \* history: TRUE for a chunk emitted inside the while loop
    \* ---- query side (retrieval/retrieve.py, retrieval/preprocessing_*.py) ----
    query,              \* the raw user query
    top_k,              \* parameter top_k of retrieve_chunks
    module,             \* module whose extract_book_chapter was called
    book,               \* extracted book (None or Some(string))
    chapter,            \* extracted chapter (None or Some(int))
    verse_range,        \* extracted verse range (None or Some(string))
    where,              \* metadata filter passed to collection.query
    results,            \* candidates returned by the vector index, in its order
    retrieved,          \* list built by the post-filter loop
    ridx,               \* number of index results the loop has consumed
    \* ---- blend weight (retrieval/query_modes.py, retrieval/reranking.py) ----
    pattern_hits,       \* per category, how many of its patterns re.search finds in q
    what_happened,      \* whether "what happened" occurs in q
    query_modes,        \* the mode vector (None before it exists)
    alpha,              \* result of compute_alpha_from_query_modes (None before)
    \* ---- reranker (retrieval/reranking.py) ----
    rr_chunks,          \* parameter chunks of rerank_chunks (its dicts are written to)
    phrase_scores,      \* compute_phrase_overlap(query, text) of each candidate id
    min_score,          \* parameter min_score, in tenths
    filtered_chunks,    \* list built by the scoring loop
    cidx,               \* number of candidates the scoring loop has consumed
    reranked,           \* return value of rerank_chunks (None before)
    \* ---- context assembler (retrieval/format_context.py) ----
    retrieved_chunks,   \* parameter retrieved_chunks of format_context
    verse_indices,      \* parameter verse_indices: chunk id -> offset entries
    passages,           \* list of passage blocks built by the loop
    fidx,               \* number of candidates the formatting loop has consumed
    formatted,          \* return value of format_context (None before)
    \* ---- pipeline (retrieval/retrieve_and_answer.py) ----
    use_llm,            \* parameter use_llm of retrieve_and_answer
    verbose,            \* parameter verbose of retrieve_and_answer
    outcome,            \* how the call ended (None while it runs)
    \* ---- normalization model (get_spacy_nlp of the retrieval modules) ----
    nlp_module,         \* module whose get_spacy_nlp the callers invoke
    nlp,                \* the module-level handle _nlp (None before the first load)
    loads,              \* number of spacy.load executions so far
    caller_pc,          \* per caller, its position inside get_spacy_nlp
    caller_nlp,         \* per caller, the handle it loaded or was returned
    \* ---- phrase overlap (extract_phrases, compute_phrase_overlap) ----
    query_doc,          \* tokens of nlp(query.lower())
    chunk_doc,          \* tokens of nlp(chunk_text.lower())
    query_phrases,      \* set(extract_phrases(query)) (None before it exists)
    chunk_phrases,      \* set(extract_phrases(chunk_text)) (None before it exists)
    divisors,           \* history: the divisor of every division executed so far
    overlap_result,     \* how compute_phrase_overlap ended (None while it runs)
    \* ---- one process serving queries (scripts/eval_retrieval.py) ----
    handles,            \* per module, its module-level handle _nlp
    constructed,        \* number of spacy.load executions in the process
    served,             \* number of queries fully served
    pending,            \* candidates of the current query not yet scored
    preprocess_nlp,     \* handle the last preprocess_query obtained
    extract_nlp,        \* handle the last extract_phrases obtained
    pc                  \* control point of the running operation

chunkVars == <<fn, verses, min_words, chunk_overlap, i, current_chunk,
               current_word_count, chunks, members, in_loop>>

queryVars == <<query, top_k, module, book, chapter, verse_range, where,
               results, retrieved, ridx>>

alphaVars == <<pattern_hits, what_happened, query_modes, alpha>>

rerankVars == <<rr_chunks, phrase_scores, min_score, filtered_chunks, cidx, reranked>>

formatVars == <<retrieved_chunks, verse_indices, passages, fidx, formatted>>

answerVars == <<use_llm, verbose, outcome>>

nlpVars == <<nlp_module, nlp, loads, caller_pc, caller_nlp>>

phraseVars == <<query_doc, chunk_doc, query_phrases, chunk_phrases, divisors,
                overlap_result>>

processVars == <<handles, constructed, served, pending, preprocess_nlp, extract_nlp>>

vars == <<chunkVars, queryVars, alphaVars, rerankVars, formatVars, answerVars,
          nlpVars, phraseVars, processVars, pc>>

----------------------------------------------------------------------------
(* Generic helpers *)

Min2(a, b) == IF a <= b THEN a ELSE b

Max2(a, b) == IF a >= b THEN a ELSE b

SeqsUpTo(S, n) == UNION {[1..k -> S] : k \in 0..n}

Last(s) == s[Len(s)]

\* Python s[a:b] for 0 <= a, 0 <= b (indices past the end are clamped)
Slice(s, a, b) == SubSeq(s, a + 1, Min2(b, Len(s)))

----------------------------------------------------------------------------
(* Bounds of the chunker inputs *)

MaxVerses == 4

MaxMinWords == 3

MaxOverlap == 2

\* Verse texts used as inputs: "", "a", "a  b" (double space), " a"
VerseTexts == { <<>>, <<"a">>, <<"a", " ", " ", "b">>, <<" ", "a">> }

\* Verse k of the input book: reference numbers follow canonical order,
\* two verses per chapter, so (chapter, verse) identifies the verse.
MkVerse(k, text) ==
    [book |-> "Genesis", chapter |-> 1 + ((k - 1) \div 2), verse |-> 1 + ((k - 1) % 2),
     text |-> text, testament |-> "OT", section |-> "Torah"]

VerseLists ==
    { [k \in 1..Len(ts) |-> MkVerse(k, ts[k])] : ts \in SeqsUpTo(VerseTexts, MaxVerses) }

----------------------------------------------------------------------------
(* preprocessing/chunking.py *)

\* len(text.split()): number of maximal runs of non-whitespace characters
WordCount(text) ==
    Cardinality({ p \in 1..Len(text) :
                    /\ text[p] # " "
                    /\ (p = 1 \/ text[p - 1] = " ") })

\* sum(len(v["text"].split()) for v in chunk)
RECURSIVE SumWords(_)
SumWords(chunk) ==
    IF chunk = <<>> THEN 0
    ELSE WordCount(chunk[1].text) + SumWords(Tail(chunk))

\* faulty variant: the parts are joined without a separator
RECURSIVE JoinNoSeparator(_)
JoinNoSeparator(parts) ==
    IF parts = <<>> THEN <<>>
    ELSE parts[1] \o JoinNoSeparator(Tail(parts))

\* " ".join(parts)
RECURSIVE Join(_)
Join(parts) ==
    IF parts = <<>> THEN <<>>
    ELSE IF Len(parts) = 1 THEN parts[1]
    ELSE parts[1] \o <<" ">> \o Join(Tail(parts))

\* [v["text"] for v in chunk]
TextParts(chunk) == [k \in 1..Len(chunk) |-> chunk[k].text]

\* faulty variant: the cursor is not advanced over the separator
NextCursorNoSeparator(end) == end

\* cursor = end + 1  # space separator
NextCursor(end) == end + 1

\* the for loop that fills verse_indices, started with the given cursor
RECURSIVE BuildIndices(_, _)
BuildIndices(chunk, cursor) ==
    IF chunk = <<>> THEN <<>>
    ELSE LET v     == chunk[1]
             start == cursor
             end   == start + Len(v.text)
         IN  << [chapter |-> v.chapter, verse |-> v.verse,
                 start |-> start, end |-> end] >>
             \o BuildIndices(Tail(chunk), NextCursor(end))

\* faulty variant: the end reference is taken from the first verse
ChunkMetadataEndFromFirst(chunk) ==
    [book          |-> chunk[1].book,
     chapter_start |-> chunk[1].chapter,
     verse_start   |-> chunk[1].verse,
     chapter_end   |-> chunk[1].chapter,
     verse_end     |-> chunk[1].verse,
     testament     |-> chunk[1].testament,
     section       |-> chunk[1].section]

\* chunk_metadata
ChunkMetadata(chunk) ==
    [book          |-> chunk[1].book,
     chapter_start |-> chunk[1].chapter,
     verse_start   |-> chunk[1].verse,
     chapter_end   |-> Last(chunk).chapter,
     verse_end     |-> Last(chunk).verse,
     testament     |-> chunk[1].testament,
     section       |-> chunk[1].section]

\* the dict appended by chunk_verses_min_first
PlainChunk(chunk) ==
    [text |-> Join(TextParts(chunk)), metadata |-> ChunkMetadata(chunk)]

\* faulty variant: empty verse texts are left out of chunk_text_parts
RECURSIVE IndexedTextPartsNonEmpty(_)
IndexedTextPartsNonEmpty(chunk) ==
    IF chunk = <<>> THEN <<>>
    ELSE (IF chunk[1].text = <<>> THEN <<>> ELSE <<chunk[1].text>>)
         \o IndexedTextPartsNonEmpty(Tail(chunk))

\* chunk_text_parts as the for loop of the indexing variant appends to it
RECURSIVE IndexedTextParts(_)
IndexedTextParts(chunk) ==
    IF chunk = <<>> THEN <<>>
    ELSE <<chunk[1].text>> \o IndexedTextParts(Tail(chunk))

\* the dict appended by chunk_verses_min_first_with_indexing
IndexedChunk(chunk) ==
    [text |-> Join(IndexedTextParts(chunk)), metadata |-> ChunkMetadata(chunk),
     verse_indices |-> BuildIndices(chunk, 0)]

MakeChunk(f, chunk) ==
    IF f = "min_first" THEN PlainChunk(chunk) ELSE IndexedChunk(chunk)

\* faulty variant: the overlap keeps one verse fewer
OverlapTailShort(chunk, ov) ==
    SubSeq(chunk, Max2(1, Len(chunk) - ov + 2), Len(chunk))

\* current_chunk[-chunk_overlap:] for chunk_overlap > 0
OverlapTail(chunk, ov) ==
    SubSeq(chunk, Max2(1, Len(chunk) - ov + 1), Len(chunk))

\* faulty variant: the threshold is reached one word early
ThresholdReachedEarly(count, mw) == count + 1 >= mw

\* faulty variant: the threshold is tested for equality
ThresholdReachedExact(count, mw) == count = mw

\* if current_word_count >= min_words
ThresholdReached(count, mw) == count >= mw

\* faulty variant: the carried word count starts again from zero
SeedWordCountZero(seed) == 0

\* current_word_count = sum(len(v["text"].split()) for v in current_chunk)
SeedWordCount(seed) == SumWords(seed)

\* The loop state of one call, as a record
LoopState(ix, cur, cnt, cs, ms, il) ==
    [i |-> ix, current_chunk |-> cur, current_word_count |-> cnt,
     chunks |-> cs, members |-> ms, in_loop |-> il]

InitialLoopState == LoopState(0, <<>>, 0, <<>>, <<>>, <<>>)

\* One iteration of the while loop
LoopBody(f, vs, mw, ov, st) ==
    LET verse == vs[st.i + 1]
        cur   == Append(st.current_chunk, verse)
        cnt   == st.current_word_count + WordCount(verse.text)
    IN  IF ThresholdReached(cnt, mw)
        THEN LET seed == IF ov > 0 THEN OverlapTail(cur, ov) ELSE <<>>
             IN  LoopState(st.i + 1, seed,
                           IF ov > 0 THEN SeedWordCount(seed) ELSE 0,
                           Append(st.chunks, MakeChunk(f, cur)),
                           Append(st.members, cur),
                           Append(st.in_loop, TRUE))
        ELSE LoopState(st.i + 1, cur, cnt, st.chunks, st.members, st.in_loop)

\* faulty variant: the remainder is never emitted
RemainderDropped(f, st) == st

\* "Add any remaining verses as a final chunk"
Remainder(f, st) ==
    IF st.current_chunk # <<>>
    THEN LoopState(st.i, st.current_chunk, st.current_word_count,
                   Append(st.chunks, MakeChunk(f, st.current_chunk)),
                   Append(st.members, st.current_chunk),
                   Append(st.in_loop, FALSE))
    ELSE st

\* The whole call: the loop run to exhaustion, then the remainder
RECURSIVE RunLoop(_, _, _, _, _)
RunLoop(f, vs, mw, ov, st) ==
    IF st.i < Len(vs) THEN RunLoop(f, vs, mw, ov, LoopBody(f, vs, mw, ov, st))
    ELSE st

ChunkVersesMinFirst(f, vs, mw, ov) ==
    Remainder(f, RunLoop(f, vs, mw, ov, InitialLoopState)).chunks


----------------------------------------------------------------------------
(* Optional values: None is the empty sequence, a value x is <<x>> *)

None == <<>>

Some(x) == <<x>>

----------------------------------------------------------------------------
(* Characters *)

\* case folding of re.IGNORECASE: upper-case letter -> lower-case letter
FoldTable ==
    [A |-> "a", B |-> "b", C |-> "c", D |-> "d", E |-> "e", F |-> "f", G |-> "g",
     H |-> "h", I |-> "i", J |-> "j", K |-> "k", L |-> "l", M |-> "m", N |-> "n",
     O |-> "o", P |-> "p", Q |-> "q", R |-> "r", S |-> "s", T |-> "t", U |-> "u",
     V |-> "v", W |-> "w", X |-> "x", Y |-> "y", Z |-> "z"]

Fold(c) == IF c \in DOMAIN FoldTable THEN FoldTable[c] ELSE c

DigitTable ==
    [c \in {"0", "1", "2", "3", "4", "5", "6", "7", "8", "9"} |->
        CASE c = "0" -> 0 [] c = "1" -> 1 [] c = "2" -> 2 [] c = "3" -> 3
          [] c = "4" -> 4 [] c = "5" -> 5 [] c = "6" -> 6 [] c = "7" -> 7
          [] c = "8" -> 8 [] c = "9" -> 9]

\* \d
IsDigit(c) == c \in DOMAIN DigitTable

DigitValue(c) == DigitTable[c]

\* the characters of \w
WordChars ==
    { "A", "B", "C", "D", "E", "F", "G", "H", "I", "J", "K", "L", "M",
      "N", "O", "P", "Q", "R", "S", "T", "U", "V", "W", "X", "Y", "Z",
      "a", "b", "c", "d", "e", "f", "g", "h", "i", "j", "k", "l", "m",
      "n", "o", "p", "q", "r", "s", "t", "u", "v", "w", "x", "y", "z",
      "0", "1", "2", "3", "4", "5", "6", "7", "8", "9", "_" }

\* \w
IsWordChar(c) == c \in WordChars

\* \s
IsSpace(c) == c = " "

\* \b at offset p of q (between q[p-1] and q[p] in 0-based indexing)
WordBoundary(q, p) ==
    LET before == p >= 1 /\ IsWordChar(q[p])
        after  == p < Len(q) /\ IsWordChar(q[p + 1])
    IN  before # after

\* str.strip()
RECURSIVE LStrip(_)
LStrip(s) ==
    IF s # <<>> /\ IsSpace(s[1]) THEN LStrip(Tail(s)) ELSE s

RECURSIVE RStrip(_)
RStrip(s) ==
    IF s # <<>> /\ IsSpace(s[Len(s)]) THEN RStrip(SubSeq(s, 1, Len(s) - 1)) ELSE s

Strip(s) == RStrip(LStrip(s))

\* int() of a string of digits
RECURSIVE ToInt(_)
ToInt(ds) ==
    IF ds = <<>> THEN 0
    ELSE 10 * ToInt(SubSeq(ds, 1, Len(ds) - 1)) + DigitValue(ds[Len(ds)])

----------------------------------------------------------------------------
(* retrieval/preprocessing_retrieval.py and retrieval/preprocessing_query.py *)

\* BIBLE_BOOKS, in the order of the list (the order of the regex alternation)
BIBLE_BOOKS == <<
    <<"G", "e", "n", "e", "s", "i", "s">>, <<"E", "x", "o", "d", "u", "s">>, <<"L", "e", "v", "i", "t", "i", "c", "u", "s">>,
    <<"N", "u", "m", "b", "e", "r", "s">>, <<"D", "e", "u", "t", "e", "r", "o", "n", "o", "m", "y">>, <<"J", "o", "s", "h", "u", "a">>,
    <<"J", "u", "d", "g", "e", "s">>, <<"R", "u", "t", "h">>, <<"1", " ", "S", "a", "m", "u", "e", "l">>,
    <<"2", " ", "S", "a", "m", "u", "e", "l">>, <<"1", " ", "K", "i", "n", "g", "s">>, <<"2", " ", "K", "i", "n", "g", "s">>,
    <<"1", " ", "C", "h", "r", "o", "n", "i", "c", "l", "e", "s">>, <<"2", " ", "C", "h", "r", "o", "n", "i", "c", "l", "e", "s">>, <<"E", "z", "r", "a">>,
    <<"N", "e", "h", "e", "m", "i", "a", "h">>, <<"E", "s", "t", "h", "e", "r">>, <<"J", "o", "b">>,
    <<"P", "s", "a", "l", "m", "s">>, <<"P", "r", "o", "v", "e", "r", "b", "s">>, <<"E", "c", "c", "l", "e", "s", "i", "a", "s", "t", "e", "s">>,
    <<"S", "o", "n", "g", " ", "o", "f", " ", "S", "o", "l", "o", "m", "o", "n">>, <<"I", "s", "a", "i", "a", "h">>, <<"J", "e", "r", "e", "m", "i", "a", "h">>,
    <<"L", "a", "m", "e", "n", "t", "a", "t", "i", "o", "n", "s">>, <<"E", "z", "e", "k", "i", "e", "l">>, <<"D", "a", "n", "i", "e", "l">>,
    <<"H", "o", "s", "e", "a">>, <<"J", "o", "e", "l">>, <<"A", "m", "o", "s">>,
    <<"O", "b", "a", "d", "i", "a", "h">>, <<"J", "o", "n", "a", "h">>, <<"M", "i", "c", "a", "h">>,
    <<"N", "a", "h", "u", "m">>, <<"H", "a", "b", "a", "k", "k", "u", "k">>, <<"Z", "e", "p", "h", "a", "n", "i", "a", "h">>,
    <<"H", "a", "g", "g", "a", "i">>, <<"Z", "e", "c", "h", "a", "r", "i", "a", "h">>, <<"M", "a", "l", "a", "c", "h", "i">>,
    <<"M", "a", "t", "t", "h", "e", "w">>, <<"M", "a", "r", "k">>, <<"L", "u", "k", "e">>,
    <<"J", "o", "h", "n">>, <<"A", "c", "t", "s">>, <<"R", "o", "m", "a", "n", "s">>,
    <<"1", " ", "C", "o", "r", "i", "n", "t", "h", "i", "a", "n", "s">>, <<"2", " ", "C", "o", "r", "i", "n", "t", "h", "i", "a", "n", "s">>, <<"G", "a", "l", "a", "t", "i", "a", "n", "s">>,
    <<"E", "p", "h", "e", "s", "i", "a", "n", "s">>, <<"P", "h", "i", "l", "i", "p", "p", "i", "a", "n", "s">>, <<"C", "o", "l", "o", "s", "s", "i", "a", "n", "s">>,
    <<"1", " ", "T", "h", "e", "s", "s", "a", "l", "o", "n", "i", "a", "n", "s">>, <<"2", " ", "T", "h", "e", "s", "s", "a", "l", "o", "n", "i", "a", "n", "s">>, <<"1", " ", "T", "i", "m", "o", "t", "h", "y">>,
    <<"2", " ", "T", "i", "m", "o", "t", "h", "y">>, <<"T", "i", "t", "u", "s">>, <<"P", "h", "i", "l", "e", "m", "o", "n">>,
    <<"H", "e", "b", "r", "e", "w", "s">>, <<"J", "a", "m", "e", "s">>, <<"1", " ", "P", "e", "t", "e", "r">>,
    <<"2", " ", "P", "e", "t", "e", "r">>, <<"1", " ", "J", "o", "h", "n">>, <<"2", " ", "J", "o", "h", "n">>,
    <<"3", " ", "J", "o", "h", "n">>, <<"J", "u", "d", "e">>, <<"R", "e", "v", "e", "l", "a", "t", "i", "o", "n">>,
    <<"P", "s", "a", "l", "m">>, <<"P", "r", "o", "v", "e", "r", "b">>, <<"L", "a", "m", "e", "n", "t", "a", "t", "i", "o", "n">>,
    <<"R", "e", "v", "e", "l", "a", "t", "i", "o", "n", "s">>
>>

\* BIBLE_ORDER: the book names ingestion stores in the verse and chunk metadata
BIBLE_ORDER == <<
    <<"G", "e", "n", "e", "s", "i", "s">>, <<"E", "x", "o", "d", "u", "s">>, <<"L", "e", "v", "i", "t", "i", "c", "u", "s">>,
    <<"N", "u", "m", "b", "e", "r", "s">>, <<"D", "e", "u", "t", "e", "r", "o", "n", "o", "m", "y">>, <<"J", "o", "s", "h", "u", "a">>,
    <<"J", "u", "d", "g", "e", "s">>, <<"R", "u", "t", "h">>, <<"1", " ", "S", "a", "m", "u", "e", "l">>,
    <<"2", " ", "S", "a", "m", "u", "e", "l">>, <<"1", " ", "K", "i", "n", "g", "s">>, <<"2", " ", "K", "i", "n", "g", "s">>,
    <<"1", " ", "C", "h", "r", "o", "n", "i", "c", "l", "e", "s">>, <<"2", " ", "C", "h", "r", "o", "n", "i", "c", "l", "e", "s">>, <<"E", "z", "r", "a">>,
    <<"N", "e", "h", "e", "m", "i", "a", "h">>, <<"E", "s", "t", "h", "e", "r">>, <<"J", "o", "b">>,
    <<"P", "s", "a", "l", "m", "s">>, <<"P", "r", "o", "v", "e", "r", "b", "s">>, <<"E", "c", "c", "l", "e", "s", "i", "a", "s", "t", "e", "s">>,
    <<"S", "o", "n", "g", " ", "o", "f", " ", "S", "o", "l", "o", "m", "o", "n">>, <<"I", "s", "a", "i", "a", "h">>, <<"J", "e", "r", "e", "m", "i", "a", "h">>,
    <<"L", "a", "m", "e", "n", "t", "a", "t", "i", "o", "n", "s">>, <<"E", "z", "e", "k", "i", "e", "l">>, <<"D", "a", "n", "i", "e", "l">>,
    <<"H", "o", "s", "e", "a">>, <<"J", "o", "e", "l">>, <<"A", "m", "o", "s">>,
    <<"O", "b", "a", "d", "i", "a", "h">>, <<"J", "o", "n", "a", "h">>, <<"M", "i", "c", "a", "h">>,
    <<"N", "a", "h", "u", "m">>, <<"H", "a", "b", "a", "k", "k", "u", "k">>, <<"Z", "e", "p", "h", "a", "n", "i", "a", "h">>,
    <<"H", "a", "g", "g", "a", "i">>, <<"Z", "e", "c", "h", "a", "r", "i", "a", "h">>, <<"M", "a", "l", "a", "c", "h", "i">>,
    <<"M", "a", "t", "t", "h", "e", "w">>, <<"M", "a", "r", "k">>, <<"L", "u", "k", "e">>,
    <<"J", "o", "h", "n">>, <<"A", "c", "t", "s">>, <<"R", "o", "m", "a", "n", "s">>,
    <<"1", " ", "C", "o", "r", "i", "n", "t", "h", "i", "a", "n", "s">>, <<"2", " ", "C", "o", "r", "i", "n", "t", "h", "i", "a", "n", "s">>, <<"G", "a", "l", "a", "t", "i", "a", "n", "s">>,
    <<"E", "p", "h", "e", "s", "i", "a", "n", "s">>, <<"P", "h", "i", "l", "i", "p", "p", "i", "a", "n", "s">>, <<"C", "o", "l", "o", "s", "s", "i", "a", "n", "s">>,
    <<"1", " ", "T", "h", "e", "s", "s", "a", "l", "o", "n", "i", "a", "n", "s">>, <<"2", " ", "T", "h", "e", "s", "s", "a", "l", "o", "n", "i", "a", "n", "s">>, <<"1", " ", "T", "i", "m", "o", "t", "h", "y">>,
    <<"2", " ", "T", "i", "m", "o", "t", "h", "y">>, <<"T", "i", "t", "u", "s">>, <<"P", "h", "i", "l", "e", "m", "o", "n">>,
    <<"H", "e", "b", "r", "e", "w", "s">>, <<"J", "a", "m", "e", "s">>, <<"1", " ", "P", "e", "t", "e", "r">>,
    <<"2", " ", "P", "e", "t", "e", "r">>, <<"1", " ", "J", "o", "h", "n">>, <<"2", " ", "J", "o", "h", "n">>,
    <<"3", " ", "J", "o", "h", "n">>, <<"J", "u", "d", "e">>, <<"R", "e", "v", "e", "l", "a", "t", "i", "o", "n">>
>>

\* one alternative of BOOK_PATTERN matches at offset p: \b name \b, ignoring case
MatchesAt(q, p, name) ==
    /\ p + Len(name) <= Len(q)
    /\ WordBoundary(q, p)
    /\ \A k \in 1..Len(name) : Fold(q[p + k]) = Fold(name[k])
    /\ WordBoundary(q, p + Len(name))

\* the first alternative of BOOK_PATTERN, from alternative n on, that matches
\* at offset p; 0 when none does
RECURSIVE FirstAlternative(_, _, _)
FirstAlternative(q, p, n) ==
    IF n > Len(BIBLE_BOOKS) THEN 0
    ELSE IF MatchesAt(q, p, BIBLE_BOOKS[n]) THEN n
    ELSE FirstAlternative(q, p, n + 1)

\* faulty variant: the rightmost match is returned
RECURSIVE SearchFromRightmost(_, _)
SearchFromRightmost(q, p) ==
    IF p > Len(q) THEN None
    ELSE LET later == SearchFromRightmost(q, p + 1)
             n     == FirstAlternative(q, p, 1)
         IN  IF later # None THEN later
             ELSE IF n > 0 THEN Some([start |-> p, end |-> p + Len(BIBLE_BOOKS[n])])
             ELSE None

\* the scan of BOOK_PATTERN.search from offset p on: the leftmost offset at
\* which an alternative matches, with the first alternative that matches there
RECURSIVE SearchFrom(_, _)
SearchFrom(q, p) ==
    IF p > Len(q) THEN None
    ELSE LET n == FirstAlternative(q, p, 1)
         IN  IF n > 0 THEN Some([start |-> p, end |-> p + Len(BIBLE_BOOKS[n])])
             ELSE SearchFrom(q, p + 1)

\* BOOK_PATTERN.search(query); None when nothing matches
BookSearch(q) == SearchFrom(q, 0)

\* \d{1,3} at offset p of s: how many digits the greedy quantifier takes
RECURSIVE DigitsAt(_, _, _)
DigitsAt(s, p, most) ==
    IF most > 0 /\ p < Len(s) /\ IsDigit(s[p + 1])
    THEN 1 + DigitsAt(s, p + 1, most - 1)
    ELSE 0

\* CHAPTER_VERSE_PATTERN.match(s): (\d{1,3})(?::(\d{1,3}(?:-\d{1,3})?))?
\* None, or the groups [g1, g2] with g2 None when the optional part is absent
ChapterVerseMatch(s) ==
    LET n1 == DigitsAt(s, 0, 3)
        colon == n1 < Len(s) /\ s[n1 + 1] = ":"
        n2 == IF colon THEN DigitsAt(s, n1 + 1, 3) ELSE 0
        e2 == n1 + 1 + n2
        dash == n2 > 0 /\ e2 < Len(s) /\ s[e2 + 1] = "-"
        n3 == IF dash THEN DigitsAt(s, e2 + 1, 3) ELSE 0
    IN  IF n1 = 0 THEN None
        ELSE Some([g1 |-> Slice(s, 0, n1),
                   g2 |-> IF n2 = 0 THEN None
                          ELSE IF n3 = 0 THEN Some(Slice(s, n1 + 1, e2))
                          ELSE Some(Slice(s, n1 + 1, e2 + 1 + n3))])

\* preprocessing_query.py: match book: case "Psalm": ... (exact string cases)
NormalizeBook(name) ==
    IF name = <<"P", "s", "a", "l", "m">> THEN <<"P", "s", "a", "l", "m", "s">>
    ELSE IF name = <<"P", "r", "o", "v", "e", "r", "b">>
         THEN <<"P", "r", "o", "v", "e", "r", "b", "s">>
    ELSE IF name = <<"L", "a", "m", "e", "n", "t", "a", "t", "i", "o", "n">>
         THEN <<"L", "a", "m", "e", "n", "t", "a", "t", "i", "o", "n", "s">>
    ELSE IF name = <<"R", "e", "v", "e", "l", "a", "t", "i", "o", "n", "s">>
         THEN <<"R", "e", "v", "e", "l", "a", "t", "i", "o", "n">>
    ELSE name

ExtractResult(b, c, v) == [book |-> b, chapter |-> c, verse_range |-> v]

\* extract_book_chapter(query) of the named module; only preprocessing_query
\* has the normalization step
ExtractBookChapter(mod, q) ==
    LET book_match == BookSearch(q)
    IN  IF book_match = None THEN ExtractResult(None, None, None)
        ELSE LET m          == book_match[1]
                 matched    == Slice(q, m.start, m.end)
                 after_book == Strip(Slice(q, m.end, Len(q)))
                 chap_match == ChapterVerseMatch(after_book)
                 chap       == IF chap_match = None THEN None
                               ELSE Some(ToInt(chap_match[1].g1))
                 vrange     == IF chap_match = None THEN None
                               ELSE chap_match[1].g2
                 bk         == IF mod = "preprocessing_query"
                               THEN NormalizeBook(matched) ELSE matched
             IN  ExtractResult(Some(bk), chap, vrange)

----------------------------------------------------------------------------
(* Inputs of the query-side operations *)

\* Query inputs: an optional lead-in, a book mention (or none), a continuation
QueryPrefixes == {
    <<>>, <<"r", "e", "a", "d", " ">>
}

QueryMentions == {
    <<"P", "s", "a", "l", "m">>, <<"p", "s", "a", "l", "m">>, <<"P", "s", "a", "l", "m", "s">>,
    <<"P", "R", "O", "V", "E", "R", "B">>, <<"P", "r", "o", "v", "e", "r", "b">>, <<"L", "a", "m", "e", "n", "t", "a", "t", "i", "o", "n">>,
    <<"R", "e", "v", "e", "l", "a", "t", "i", "o", "n", "s">>, <<"r", "e", "v", "e", "l", "a", "t", "i", "o", "n", "s">>, <<"G", "e", "n", "e", "s", "i", "s">>,
    <<"g", "e", "n", "e", "s", "i", "s">>, <<"1", " ", "J", "o", "h", "n">>, <<"m", "a", "r", "k">>,
    <<"P", "s", "a", "l", "m", "i", "s", "t">>, <<"l", "o", "v", "e">>
}

QuerySuffixes == {
    <<>>, <<" ", "2", "3">>, <<" ", "4">>,
    <<" ", "6">>, <<" ", "1", ":", "1", "-", "8">>, <<" ", " ", "3", ":", "1", "6", " ", "n", "o", "w">>,
    <<" ", "x", " ", "2">>, <<"2", "3">>, <<":", " ", "7">>,
    <<" ", "1", "2", "3", "4", ":", "5", "-", "6", "7", "8", "9">>, <<" ", "1", "2", ":", "3", "4", "5", "-", "6", "7", "8", "9">>,
    <<" ", "5", " ", "m", "a", "r", "k", " ", "6">>
}

Queries ==
    { p \o m \o s : p \in QueryPrefixes, m \in QueryMentions, s \in QuerySuffixes }

ExtractModules == {"preprocessing_query", "preprocessing_retrieval"}

----------------------------------------------------------------------------
(* retrieval/retrieve.py *)

MaxTopK == 3

\* metadata of a stored chunk, in the shape chunk_metadata gives it
StoredMetadata(bk, cs, ce) ==
    [book |-> bk, chapter_start |-> cs, verse_start |-> 1,
     chapter_end |-> ce, verse_end |-> 2, testament |-> "OT", section |-> "Torah"]

\* The chunks held by the vector index; book is the name ingestion stored
Collection ==
    { [id |-> "c1", text |-> <<"a">>, metadata |-> StoredMetadata(BIBLE_ORDER[19], 3, 5)],
      [id |-> "c2", text |-> <<"b">>, metadata |-> StoredMetadata(BIBLE_ORDER[19], 23, 23)],
      [id |-> "c3", text |-> <<"c">>, metadata |-> StoredMetadata(BIBLE_ORDER[19], 4, 4)],
      [id |-> "c4", text |-> <<"d">>, metadata |-> StoredMetadata(BIBLE_ORDER[1], 1, 1)],
      [id |-> "c5", text |-> <<"e">>, metadata |-> StoredMetadata(BIBLE_ORDER[62], 1, 1)] }

\* distances the index may report, in tenths
DistanceLevels == {3, 12}

\* where = {'book': book} if book else None
WhereFilter(bk) ==
    IF bk # None /\ bk[1] # <<>> THEN Some([book |-> bk[1]]) ELSE None

\* collection.query(query_texts, n_results, where, include): the stored chunks
\* that satisfy the equality filter, the n_results nearest of them, nearest
\* first; which ones are nearest and at what distance is the index's choice
IndexAnswers(w, n_results) ==
    LET matching == { c \in Collection : w = None \/ c.metadata.book = w[1].book }
        n        == Min2(n_results, Cardinality(matching))
        orders   == { o \in [1..n -> matching] :
                        \A a, b \in 1..n : a # b => o[a] # o[b] }
        dists    == { d \in [1..n -> DistanceLevels] :
                        \A a \in 1..(n - 1) : d[a] <= d[a + 1] }
    IN  { [j \in 1..n |-> [id |-> o[j].id, text |-> o[j].text,
                           metadata |-> o[j].metadata, score |-> d[j]]] :
          o \in orders, d \in dists }

\* faulty variant: the upper end of the chapter range is excluded
ChapterInRangeOpen(meta, c) ==
    meta.chapter_start <= c /\ c < meta.chapter_end

\* meta["chapter_start"] <= int(chapter) <= meta["chapter_end"]
ChapterInRange(meta, c) ==
    meta.chapter_start <= c /\ c <= meta.chapter_end

\* one iteration of the loop over the zipped index results
FilterStep(acc, cand, chap) ==
    IF chap # None /\ ~ChapterInRange(cand.metadata, chap[1])
    THEN acc
    ELSE Append(acc, [id |-> cand.id, text |-> cand.text,
                      metadata |-> cand.metadata, score |-> cand.score])

----------------------------------------------------------------------------
(* retrieval/query_modes.py and retrieval/reranking.py: the blend weight.  *)
(* Scores are exact fractions: the score x is the integer x * One.         *)

\* the score 1.0: ten times a common multiple of the pattern counts, so that
\* every ratio matches / len(patterns) and every product 0.k * score is exact
One == 93600

\* the literal 0.n
Tenths(n) == (n * One) \div 10

\* 0.n * x
TenthsOf(n, x) == (n * x) \div 10

\* len(LAW_PATTERNS), len(DISCOURSE_PATTERNS), ...
PatternCount ==
    [law |-> 13, discourse |-> 16, prophetic |-> 10, lookup |-> 8, wisdom |-> 9]

PatternCategories == DOMAIN PatternCount

ModeNames == PatternCategories \cup {"narrative", "open"}

\* _score_patterns, given how many of the patterns re.search found in the
\* query: min(1.0, matches / len(patterns))
ScorePatterns(matches, n) == Min2(One, (matches * One) \div n)

\* faulty variant: the smallest value is taken
MinValue(m) == CHOOSE x \in { m[k] : k \in DOMAIN m } : \A k \in DOMAIN m : x <= m[k]

\* max(modes.values())
MaxValue(m) == CHOOSE x \in { m[k] : k \in DOMAIN m } : \A k \in DOMAIN m : m[k] <= x

\* q = query.lower()
Lower(str) == [p \in 1..Len(str) |-> Fold(str[p])]

\* sub in str
Contains(str, sub) ==
    \E p \in 0..(Len(str) - Len(sub)) : SubSeq(str, p + 1, p + Len(sub)) = sub

\* "what happened"
WHAT_HAPPENED == <<"w", "h", "a", "t", " ", "h", "a", "p", "p", "e", "n", "e", "d">>

\* "what happened" in q
WhatHappenedIn(q) == Contains(Lower(q), WHAT_HAPPENED)

\* faulty variant: the narrative signal is 1.0
NarrativeScoreFull(phrase) == IF phrase THEN One ELSE 0

\* 0.3 if "what happened" in q else 0.0
NarrativeScore(phrase) == IF phrase THEN Tenths(3) ELSE 0

\* detect_query_modes, given the pattern matches found in q = query.lower()
\* and whether "what happened" is in q
DetectQueryModes(hits, phrase) ==
    LET modes    == [c \in PatternCategories |-> ScorePatterns(hits[c], PatternCount[c])]
        withNarr == [k \in PatternCategories \cup {"narrative"} |->
                        IF k = "narrative"
                        THEN NarrativeScore(phrase)
                        ELSE modes[k]]
        max_mode == MaxValue(withNarr)
    IN  [k \in ModeNames |->
            IF k = "open" THEN Max2(0, One - max_mode) ELSE withNarr[k]]

\* faulty variant: the baseline is 0.5
AlphaBaselineHalf == Tenths(5)

\* ALPHA_BASELINE = 0.6
AlphaBaseline == Tenths(6)

\* faulty variant: the result is returned without the clamp
ClampAlphaMissing(a) == a

\* min(0.90, max(0.1, alpha))
ClampAlpha(a) == Min2(Tenths(9), Max2(Tenths(1), a))

\* compute_alpha_from_query_modes
ComputeAlpha(m) ==
    ClampAlpha(AlphaBaseline
                 - TenthsOf(3, m["law"])
                 - TenthsOf(3, m["lookup"])
                 - TenthsOf(2, m["prophetic"])
                 + TenthsOf(2, m["discourse"])
                 + TenthsOf(1, m["wisdom"])
                 + TenthsOf(1, m["open"]))

\* Inputs: per category the number of matching patterns is 0..MaxHits or all
\* of them; a caller-supplied mode vector takes each value from the grid
MaxHits == 1

HitCounts(c) == (0..Min2(MaxHits, PatternCount[c])) \cup {PatternCount[c]}

HitVectors ==
    { h \in [PatternCategories -> UNION { HitCounts(c) : c \in PatternCategories }] :
        \A c \in PatternCategories : h[c] \in HitCounts(c) }

ModeGrid == {0, One \div 2, One}

\* queries given to detect_query_modes
ModeQueries == {
    <<"l", "o", "v", "e">>,
    <<"W", "h", "a", "t", " ", "H", "a", "p", "p", "e", "n", "e", "d">>,
    <<"s", "o", " ", "w", "h", "a", "t", " ", "h", "a", "p", "p", "e", "n", "e", "d", " ", "t", "o", " ", "x">>,
    <<"w", "h", "a", "t", "h", "a", "p", "p", "e", "n", "e", "d">>,
    <<"w", "h", "a", "t", " ", " ", "h", "a", "p", "p", "e", "n", "e", "d">>,
    <<"w", "h", "a", "t", " ", "h", "a", "p", "p", "e", "n">>
}

----------------------------------------------------------------------------
(* retrieval/reranking.py: scoring, threshold and order.                   *)
(* alpha is a multiple of 1/One; the embedding score, the phrase score and *)
(* min_score are in tenths; re_rank_score is in units of 1/(10 * One).     *)
(* A list of chunk dicts holds references: a reference is the position of  *)
(* the dict in the list passed as `chunks`.                                *)

\* the loop that zips the index results, for a whole result list
RECURSIVE PostFilter(_, _, _)
PostFilter(acc, res, chap) ==
    IF res = <<>> THEN acc
    ELSE PostFilter(FilterStep(acc, res[1], chap), Tail(res), chap)

\* filters retrieve_chunks may pass: none, a stored book, a name no chunk has
RerankFilters ==
    { None, Some([book |-> BIBLE_ORDER[19]]), Some([book |-> <<"m", "a", "r", "k">>]) }

\* lists retrieve_chunks may return
RetrievedLists ==
    { PostFilter(<<>>, r, c) :
        r \in UNION { IndexAnswers(w, k) : w \in RerankFilters, k \in 1..MaxTopK },
        c \in {None, Some(4)} }

ChunkIds == { c.id : c \in Collection }

\* values compute_phrase_overlap may return, in tenths (it returns
\* min(1.0, 1 - exp(-3 * combined)) with 0 <= combined <= 1)
PhraseLevels == {0, 3, 9}

\* the phrase score of each stored chunk for the query at hand
PhraseAssignments ==
    { [c \in ChunkIds |-> 0],
      [c \in ChunkIds |-> 3],
      [c \in ChunkIds |-> IF c \in {"c1", "c4"} THEN 9 ELSE 0],
      [c \in ChunkIds |-> IF c \in {"c2", "c3"} THEN 3 ELSE IF c = "c5" THEN 0 ELSE 9] }

\* min_score: 0.0, the default 0.3, and MIN_SCORE = 0.4 of the pipeline
MinScores == {0, 3, 4}

\* pattern matches of the queries that are reranked: none; every law and
\* lookup pattern; every discourse and wisdom pattern
RerankHits ==
    { [c \in PatternCategories |-> 0],
      [c \in PatternCategories |-> IF c \in {"law", "lookup"} THEN PatternCount[c] ELSE 0],
      [c \in PatternCategories |-> IF c \in {"discourse", "wisdom"} THEN PatternCount[c] ELSE 0] }

\* chunk.get("score", 0.0)
EmbeddingScore(chunk) == chunk.score

\* alpha * embedding_score + (1 - alpha) * phrase_score
ReRankScore(a, embedding_score, phrase_score) ==
    a * embedding_score + (One - a) * phrase_score

\* min_score in the unit of re_rank_score
ScoreThreshold(ms) == ms * One

\* faulty variant: a score equal to min_score is rejected
PassesThresholdStrict(score, ms) == score > ScoreThreshold(ms)

\* if chunk["re_rank_score"] >= min_score
PassesThreshold(score, ms) == score >= ScoreThreshold(ms)

\* faulty variant: the blended score is also written over score
WithReRankScoreOverScore(chunk, score) ==
    [id |-> chunk.id, text |-> chunk.text, metadata |-> chunk.metadata,
     score |-> score, re_rank_score |-> score]

\* the dict after chunk["re_rank_score"] = ...
WithReRankScore(chunk, score) ==
    [id |-> chunk.id, text |-> chunk.text, metadata |-> chunk.metadata,
     score |-> chunk.score, re_rank_score |-> score]

\* one iteration of `for chunk in chunks`, on the chunk at position k
ScoreStep(cs, filtered, k, a, phrases, ms) ==
    LET chunk           == cs[k]
        phrase_score    == phrases[chunk.id]
        embedding_score == EmbeddingScore(chunk)
        score           == ReRankScore(a, embedding_score, phrase_score)
    IN  [chunks   |-> [cs EXCEPT ![k] = WithReRankScore(chunk, score)],
         filtered |-> IF PassesThreshold(score, ms)
                      THEN Append(filtered, k) ELSE filtered]

\* faulty variant: a candidate is placed before the earlier ones it ties with
RECURSIVE InsertDescendingBeforeTies(_, _, _)
InsertDescendingBeforeTies(cs, placed, r) ==
    IF placed = <<>> THEN <<r>>
    ELSE IF cs[placed[1]].re_rank_score > cs[r].re_rank_score
         THEN <<placed[1]>> \o InsertDescendingBeforeTies(cs, Tail(placed), r)
         ELSE <<r>> \o placed

\* where sorted(..., reverse=True) places a candidate among the earlier ones:
\* after every one whose key is not smaller (the sort is stable)
RECURSIVE InsertDescending(_, _, _)
InsertDescending(cs, placed, r) ==
    IF placed = <<>> THEN <<r>>
    ELSE IF cs[placed[1]].re_rank_score >= cs[r].re_rank_score
         THEN <<placed[1]>> \o InsertDescending(cs, Tail(placed), r)
         ELSE <<r>> \o placed

\* sorted(filtered_chunks, key=lambda x: x["re_rank_score"], reverse=True)
RECURSIVE SortedDescending(_, _)
SortedDescending(cs, refs) ==
    IF refs = <<>> THEN <<>>
    ELSE InsertDescending(cs, SortedDescending(cs, SubSeq(refs, 1, Len(refs) - 1)),
                          Last(refs))

----------------------------------------------------------------------------
(* retrieval/format_context.py *)

\* CHUNK_LIMIT = 15
CHUNK_LIMIT == 15

MaxCandidates == 17

DigitChars == <<"0", "1", "2", "3", "4", "5", "6", "7", "8", "9">>

\* str(n) inside an f-string, for n >= 0
RECURSIVE IntToStr(_)
IntToStr(n) ==
    IF n < 10 THEN <<DigitChars[n + 1]>>
    ELSE IntToStr(n \div 10) \o <<DigitChars[(n % 10) + 1]>>

\* the em dash of the verse line (one character of the output)
EmDash == "--"

\* "\n".join(parts)
RECURSIVE JoinLines(_)
JoinLines(parts) ==
    IF parts = <<>> THEN <<>>
    ELSE IF Len(parts) = 1 THEN parts[1]
    ELSE parts[1] \o <<"\n">> \o JoinLines(Tail(parts))

\* faulty variant: every candidate is formatted
LimitedChunksAll(cs) == cs

\* retrieved_chunks[:CHUNK_LIMIT]
LimitedChunks(cs) == Slice(cs, 0, CHUNK_LIMIT)

\* reference
Reference(meta) ==
    IF meta.chapter_start = meta.chapter_end
    THEN meta.book \o <<" ">> \o IntToStr(meta.chapter_start) \o <<":">>
         \o IntToStr(meta.verse_start) \o <<"-">> \o IntToStr(meta.verse_end)
    ELSE meta.book \o <<" ">> \o IntToStr(meta.chapter_start) \o <<":">>
         \o IntToStr(meta.verse_start) \o <<"-">> \o IntToStr(meta.chapter_end)
         \o <<":">> \o IntToStr(meta.verse_end)

\* verse_indices.get(chunk_id)
GetVerseList(store, chunk_id) ==
    IF chunk_id \in DOMAIN store THEN Some(store[chunk_id]) ELSE None

\* f"{meta['book']} {v['chapter']}:{v['verse']} -- \"{verse_text}\"" with
\* verse_text = text[v["start"]:v["end"]].strip()
VerseLine(meta, text, v) ==
    LET verse_text == Strip(Slice(text, v.start, v.end))
    IN  meta.book \o <<" ">> \o IntToStr(v.chapter) \o <<":">> \o IntToStr(v.verse)
        \o <<" ", EmDash, " ", "\"">> \o verse_text \o <<"\"">>

\* faulty variant: the fallback emits nothing
FormattedTextNoFallback(meta, text, verse_list) ==
    IF verse_list = None \/ verse_list[1] = <<>>
    THEN <<>>
    ELSE JoinLines([j \in 1..Len(verse_list[1]) |-> VerseLine(meta, text, verse_list[1][j])])

\* formatted_text: the stripped chunk text if `not verse_list`, else the
\* verse lines joined by newlines
FormattedText(meta, text, verse_list) ==
    IF verse_list = None \/ verse_list[1] = <<>>
    THEN Strip(text)
    ELSE JoinLines([j \in 1..Len(verse_list[1]) |-> VerseLine(meta, text, verse_list[1][j])])

\* passage_block
PassageBlock(idx, chunk, store) ==
    <<"[", "P", "a", "s", "s", "a", "g", "e", " ">> \o IntToStr(idx) \o <<"]", "\n">>
    \o <<"C", "h", "u", "n", "k", " ", "r", "e", "f", "e", "r", "e", "n", "c", "e", ":", " ">> \o Reference(chunk.metadata) \o <<"\n">>
    \o FormattedText(chunk.metadata, chunk.text, GetVerseList(store, chunk.id))

\* Inputs.  The candidate at position k has id k and chapter_start k; its text
\* and offset entries are those the chunker gives for the verses of its kind.
FormatKinds == 1..5

KindVerses(kind) ==
    CASE kind = 1 -> << MkVerse(1, <<"a">>), MkVerse(2, <<"a", " ", " ", "b">>) >>
      [] kind = 2 -> << MkVerse(1, <<" ", "a">>) >>
      [] kind = 3 -> << MkVerse(1, <<>>), MkVerse(2, <<"a">>) >>
      [] kind = 4 -> << MkVerse(1, <<" ", "a">>), MkVerse(2, <<>>) >>
      [] kind = 5 -> << MkVerse(1, <<"a">>) >>

\* kind of the candidate at position k
KindAt(k, shift) == 1 + ((k + shift) % 5)

\* kinds whose id the offset index lacks, and whose entry in it is empty
KindMissing == {2}

KindEmpty == {3}

FormatCandidate(k, kind) ==
    LET ch == IndexedChunk(KindVerses(kind))
    IN  [id |-> k, text |-> ch.text,
         metadata |-> [book |-> BIBLE_ORDER[19], chapter_start |-> k, verse_start |-> 1,
                       chapter_end |-> k + (kind % 2), verse_end |-> 2,
                       testament |-> "OT", section |-> "Poetry"]]

FormatCandidates(n, shift) == [k \in 1..n |-> FormatCandidate(k, KindAt(k, shift))]

\* the offset index loaded from the verse-indices file
OffsetIndex(n, shift) ==
    [k \in { p \in 1..n : KindAt(p, shift) \notin KindMissing } |->
        IF KindAt(k, shift) \in KindEmpty THEN <<>>
        ELSE IndexedChunk(KindVerses(KindAt(k, shift))).verse_indices]

----------------------------------------------------------------------------
(* retrieval/retrieve_and_answer.py *)

\* def retrieve_chunks(collection, query, top_k): the parameters, none of
\* which has a default
RetrieveChunksParameters == <<"collection", "query", "top_k">>

\* the call retrieve_chunks(collection, query, top_k=top_k, verbose=verbose)
ContextCall == [positional |-> 2, keywords |-> {"top_k", "verbose"}]

\* whether the arguments of a call bind to the parameters of the function;
\* Python raises TypeError before the body runs if they do not
Binds(params, call) ==
    /\ call.positional <= Len(params)
    /\ call.keywords \subseteq { params[j] : j \in (call.positional + 1)..Len(params) }
    /\ \A j \in (call.positional + 1)..Len(params) : params[j] \in call.keywords

\* the message returned when the context is empty
NoPassagesMessage == "No relevant Scripture passages found for this question."

\* how a call ends
Raised(exception) == Some([kind |-> "raise", value |-> exception])

Returned(value) == Some([kind |-> "return", value |-> value])

\* what retrieve_chunks(collection, query, top_k) can return when it is run
RetrieveChunksResults(q, k) ==
    LET r == ExtractBookChapter("preprocessing_retrieval", q)
    IN  { PostFilter(<<>>, res, r.chapter) : res \in IndexAnswers(WhereFilter(r.book), k) }

----------------------------------------------------------------------------
(* get_spacy_nlp of retrieval/retrieval_preprocessing.py and of            *)
(* retrieval/preprocessing_retrieval.py (the same code in both modules)    *)

MaxCallers == 3

\* modules that define _nlp and get_spacy_nlp
NlpModules == {"retrieval_preprocessing", "preprocessing_retrieval"}

\* if _nlp is None
HandleIsNone(handle) == handle = None

\* spacy.load(...): the n-th execution constructs the n-th model object
SpacyLoad(n) == [model |-> "en_core_web_sm", object |-> n]

----------------------------------------------------------------------------
(* One process serving queries one after the other: the loop of            *)
(* scripts/eval_retrieval.py, retrieve_chunks followed by rerank_chunks    *)

MaxQueries == 2

\* from retrieval.preprocessing_retrieval import ..., preprocess_query
PreprocessQueryModule == "preprocessing_retrieval"

\* from retrieval.retrieval_preprocessing import get_spacy_nlp
ExtractPhrasesModule == "retrieval_preprocessing"

\* get_spacy_nlp() of module mod, called when n models have been constructed:
\* the module's handle is loaded if it is None, and returned
GetSpacyNlp(hs, mod, n) ==
    IF HandleIsNone(hs[mod])
    THEN [handles     |-> [hs EXCEPT ![mod] = Some(SpacyLoad(n + 1))],
          constructed |-> n + 1,
          nlp         |-> Some(SpacyLoad(n + 1))]
    ELSE [handles |-> hs, constructed |-> n, nlp |-> hs[mod]]

\* the two extract_phrases calls of one compute_phrase_overlap call
ExtractPhrasesTwice(hs, n) ==
    LET first == GetSpacyNlp(hs, ExtractPhrasesModule, n)
    IN  GetSpacyNlp(first.handles, ExtractPhrasesModule, first.constructed)

----------------------------------------------------------------------------
(* retrieval/reranking.py: extract_phrases and compute_phrase_overlap.     *)
(* A document is the token list nlp(text.lower()) of the normalization     *)
(* model: each token carries its lemma (a string) and its is_alpha flag.   *)
(* The phrase score x is the integer x * ScoreUnit, rounded down.          *)

MaxTokens == 5

\* the score 1.0 of compute_phrase_overlap
ScoreUnit == 10000

\* min_words = 2, max_words = 5 (defaults of extract_phrases)
MIN_WORDS == 2

MAX_WORDS == 5

Token(lemma, alphabetic) == [lemma_ |-> lemma, is_alpha |-> alphabetic]

\* tokens a document is made of: two alphabetic lemmas and a number
TokenKinds ==
    { Token(<<"a">>, TRUE), Token(<<"b", "e">>, TRUE), Token(<<"7">>, FALSE) }

\* documents of candidate texts
ChunkDocs == SeqsUpTo(TokenKinds, MaxTokens)

\* documents of queries: empty, one word, one word and a number, two words,
\* two words around a number, five words, one word five times
QueryDocs ==
    LET a == Token(<<"a">>, TRUE)
        b == Token(<<"b", "e">>, TRUE)
        n == Token(<<"7">>, FALSE)
    IN  { <<>>, <<a>>, <<a, n>>, <<a, b>>, <<a, n, b>>, <<a, b, a, b, a>>,
          <<a, a, a, a, a>> }

\* tokens = [token.lemma_ for token in doc if token.is_alpha]
RECURSIVE AlphaLemmas(_)
AlphaLemmas(doc) ==
    IF doc = <<>> THEN <<>>
    ELSE (IF doc[1].is_alpha THEN <<doc[1].lemma_>> ELSE <<>>)
         \o AlphaLemmas(Tail(doc))

\* faulty variant: the window is one token short of n
PhrasesOfLengthShort(tokens, n) ==
    [k \in 1..Max2(0, Len(tokens) - n + 1) |-> Join(SubSeq(tokens, k, k + n - 2))]

\* for i in range(len(tokens) - n + 1): phrases.append(" ".join(tokens[i:i+n]))
PhrasesOfLength(tokens, n) ==
    [k \in 1..Max2(0, Len(tokens) - n + 1) |-> Join(SubSeq(tokens, k, k + n - 1))]

\* for n in range(min_words, max_words + 1): ...
RECURSIVE PhrasesFrom(_, _, _)
PhrasesFrom(tokens, n, max_words) ==
    IF n > max_words THEN <<>>
    ELSE PhrasesOfLength(tokens, n) \o PhrasesFrom(tokens, n + 1, max_words)

\* extract_phrases, given the document of the text
ExtractPhrases(doc) == PhrasesFrom(AlphaLemmas(doc), MIN_WORDS, MAX_WORDS)

\* set(list)
ToSet(list) == { list[k] : k \in 1..Len(list) }

\* faulty variant: the guard asks for both sets to be empty
PhraseSetMissingBoth(query_set, chunk_set) == query_set = {} /\ chunk_set = {}

\* if not query_phrases or not chunk_phrases
PhraseSetMissing(query_set, chunk_set) == query_set = {} \/ chunk_set = {}

\* min(len(query_phrases), len(chunk_phrases)), the divisor of raw_score
RawDivisor(query_set, chunk_set) ==
    Min2(Cardinality(query_set), Cardinality(chunk_set))

\* a / b for b # 0
Quotient(a, b) == (a * ScoreUnit) \div b

\* max((len(p.split()) for p in overlap), default=0)
MaxPhraseLen(overlap) ==
    IF overlap = {} THEN 0
    ELSE CHOOSE n \in { WordCount(p) : p \in overlap } :
             \A p \in overlap : WordCount(p) <= n

\* x * y for scores x, y
Times(x, y) == (x * y) \div ScoreUnit

\* math.exp(-x) for 0 <= x <= 4: the series of exp(-x/4) up to the eighth
\* power, squared twice
ExpNeg(x) ==
    LET y  == x \div 4
        t2 == Times(y, y) \div 2
        t3 == Times(t2, y) \div 3
        t4 == Times(t3, y) \div 4
        t5 == Times(t4, y) \div 5
        t6 == Times(t5, y) \div 6
        t7 == Times(t6, y) \div 7
        t8 == Times(t7, y) \div 8
        e  == ScoreUnit - y + t2 - t3 + t4 - t5 + t6 - t7 + t8
        e2 == Times(e, e)
    IN  Times(e2, e2)

\* the score computed from two non-empty phrase sets: raw_score,
\* length_bonus, combined, bumped, min(1.0, bumped)
OverlapScore(query_set, chunk_set, max_words, k) ==
    LET overlap      == query_set \cap chunk_set
        raw_score    == Quotient(Cardinality(overlap), RawDivisor(query_set, chunk_set))
        length_bonus == Quotient(MaxPhraseLen(overlap), max_words)
        combined     == (7 * raw_score + 3 * length_bonus) \div 10
        bumped       == ScoreUnit - ExpNeg(k * combined)
    IN  Min2(ScoreUnit, bumped)

\* the part of compute_phrase_overlap after the two sets are built; a
\* division by zero raises ZeroDivisionError
ComputePhraseOverlap(query_set, chunk_set) ==
    IF PhraseSetMissing(query_set, chunk_set) THEN Returned(0)
    ELSE IF RawDivisor(query_set, chunk_set) = 0 THEN Raised("ZeroDivisionError")
    ELSE Returned(OverlapScore(query_set, chunk_set, MAX_WORDS, 3))

\* the divisions compute_phrase_overlap executes: none on the early return,
\* else raw_score and, if that did not raise, length_bonus
OverlapDivisors(query_set, chunk_set) ==
    IF PhraseSetMissing(query_set, chunk_set) THEN <<>>
    ELSE IF RawDivisor(query_set, chunk_set) = 0 THEN <<0>>
    ELSE <<RawDivisor(query_set, chunk_set), MAX_WORDS>>

\* the divisor len(patterns) of each _score_patterns call of detect_query_modes
PatternDivisors ==
    << PatternCount["law"], PatternCount["discourse"], PatternCount["prophetic"],
       PatternCount["lookup"], PatternCount["wisdom"] >>

----------------------------------------------------------------------------
(* The chunker as a state machine: one action per loop iteration *)

CurrentState ==
    LoopState(i, current_chunk, current_word_count, chunks, members, in_loop)

SetState(st) ==
    /\ i' = st.i
    /\ current_chunk' = st.current_chunk
    /\ current_word_count' = st.current_word_count
    /\ chunks' = st.chunks
    /\ members' = st.members
    /\ in_loop' = st.in_loop

\* no query-side operation is running
QueryIdle ==
    /\ query = <<>>
    /\ top_k = 0
    /\ module = ""
    /\ book = None
    /\ chapter = None
    /\ verse_range = None
    /\ where = None
    /\ results = <<>>
    /\ retrieved = <<>>
    /\ ridx = 0

\* no mode detection or blend-weight computation is running
AlphaIdle ==
    /\ pattern_hits = None
    /\ what_happened = FALSE
    /\ query_modes = None
    /\ alpha = None

\* no rerank_chunks call is running
RerankIdle ==
    /\ rr_chunks = <<>>
    /\ phrase_scores = <<>>
    /\ min_score = 0
    /\ filtered_chunks = <<>>
    /\ cidx = 0
    /\ reranked = None

\* no format_context call is running
FormatIdle ==
    /\ retrieved_chunks = <<>>
    /\ verse_indices = <<>>
    /\ passages = <<>>
    /\ fidx = 0
    /\ formatted = None

\* no retrieve_and_answer call is running
AnswerIdle ==
    /\ use_llm = FALSE
    /\ verbose = FALSE
    /\ outcome = None

\* no caller is inside get_spacy_nlp
NlpIdle ==
    /\ nlp_module = ""
    /\ nlp = None
    /\ loads = 0
    /\ caller_pc = <<>>
    /\ caller_nlp = <<>>

\* no compute_phrase_overlap call is running
PhraseIdle ==
    /\ query_doc = <<>>
    /\ chunk_doc = <<>>
    /\ query_phrases = None
    /\ chunk_phrases = None
    /\ divisors = <<>>
    /\ overlap_result = None

\* no query-serving process is modelled
ProcessIdle ==
    /\ handles = <<>>
    /\ constructed = 0
    /\ served = 0
    /\ pending = <<>>
    /\ preprocess_nlp = None
    /\ extract_nlp = None

ChunkInit ==
    /\ QueryIdle
    /\ AlphaIdle
    /\ RerankIdle
    /\ FormatIdle
    /\ AnswerIdle
    /\ NlpIdle
    /\ PhraseIdle
    /\ ProcessIdle
    /\ fn \in {"min_first", "min_first_with_indexing"}
    /\ verses \in VerseLists
    /\ min_words \in 0..MaxMinWords
    /\ chunk_overlap \in 0..MaxOverlap
    /\ i = 0
    /\ current_chunk = <<>>
    /\ current_word_count = 0
    /\ chunks = <<>>
    /\ members = <<>>
    /\ in_loop = <<>>
    /\ pc = "loop"

\* chunk_verses_min_first: one iteration of `while i < len(verses)`
MinFirstIteration ==
    /\ pc = "loop"
    /\ fn = "min_first"
    /\ i < Len(verses)
    /\ SetState(LoopBody(fn, verses, min_words, chunk_overlap, CurrentState))
    /\ UNCHANGED <<phraseVars, processVars, rerankVars, formatVars, answerVars, nlpVars,
                   fn, verses, min_words, chunk_overlap, pc, queryVars, alphaVars>>

\* chunk_verses_min_first_with_indexing: one iteration of the loop
IndexingIteration ==
    /\ pc = "loop"
    /\ fn = "min_first_with_indexing"
    /\ i < Len(verses)
    /\ SetState(LoopBody(fn, verses, min_words, chunk_overlap, CurrentState))
    /\ UNCHANGED <<phraseVars, processVars, rerankVars, formatVars, answerVars, nlpVars,
                   fn, verses, min_words, chunk_overlap, pc, queryVars, alphaVars>>

\* loop exit: emit the remainder and return chunks
EmitRemainder ==
    /\ pc = "loop"
    /\ i >= Len(verses)
    /\ SetState(Remainder(fn, CurrentState))
    /\ pc' = "done"
    /\ UNCHANGED <<phraseVars, processVars, rerankVars, formatVars, answerVars, nlpVars,
                   fn, verses, min_words, chunk_overlap, queryVars, alphaVars>>

ChunkNext == MinFirstIteration \/ IndexingIteration \/ EmitRemainder

SpecChunk == ChunkInit /\ [][ChunkNext]_vars

----------------------------------------------------------------------------
(* The query-side operations as a state machine *)

\* no chunker call is running
ChunkIdle ==
    /\ fn = ""
    /\ verses = <<>>
    /\ min_words = 0
    /\ chunk_overlap = 0
    /\ i = 0
    /\ current_chunk = <<>>
    /\ current_word_count = 0
    /\ chunks = <<>>
    /\ members = <<>>
    /\ in_loop = <<>>

QueryInit ==
    /\ ChunkIdle
    /\ AlphaIdle
    /\ RerankIdle
    /\ FormatIdle
    /\ AnswerIdle
    /\ NlpIdle
    /\ PhraseIdle
    /\ ProcessIdle
    /\ query \in Queries
    /\ top_k \in 1..MaxTopK
    /\ module = ""
    /\ book = None
    /\ chapter = None
    /\ verse_range = None
    /\ where = None
    /\ results = <<>>
    /\ retrieved = <<>>
    /\ ridx = 0
    /\ pc = "start"

\* a direct call extract_book_chapter(query) of either module
ExtractCall ==
    /\ pc = "start"
    /\ \E mod \in ExtractModules :
           LET r == ExtractBookChapter(mod, query)
           IN  /\ module' = mod
               /\ book' = r.book
               /\ chapter' = r.chapter
               /\ verse_range' = r.verse_range
    /\ pc' = "extracted"
    /\ UNCHANGED <<phraseVars, processVars, rerankVars, formatVars, answerVars, nlpVars,
                   chunkVars, alphaVars, query, top_k, where, results, retrieved, ridx>>

\* retrieve_chunks up to the answer of collection.query: extraction with the
\* imported preprocessing_retrieval.extract_book_chapter, the filter, the query
RetrieveStart ==
    /\ pc = "start"
    /\ LET r == ExtractBookChapter("preprocessing_retrieval", query)
       IN  /\ module' = "preprocessing_retrieval"
           /\ book' = r.book
           /\ chapter' = r.chapter
           /\ where' = WhereFilter(r.book)
           /\ results' \in IndexAnswers(WhereFilter(r.book), top_k)
    /\ retrieved' = <<>>
    /\ ridx' = 0
    /\ pc' = "filter"
    /\ UNCHANGED <<phraseVars, processVars, rerankVars, formatVars, answerVars, nlpVars,
                   chunkVars, alphaVars, query, top_k, verse_range>>

\* retrieve_chunks: one iteration of the post-filter loop
RetrieveFilterStep ==
    /\ pc = "filter"
    /\ ridx < Len(results)
    /\ retrieved' = FilterStep(retrieved, results[ridx + 1], chapter)
    /\ ridx' = ridx + 1
    /\ UNCHANGED <<phraseVars, processVars, rerankVars, formatVars, answerVars, nlpVars,
                   chunkVars, alphaVars, query, top_k, module, book, chapter, verse_range,
                   where, results, pc>>

\* retrieve_chunks: return retrieved
RetrieveReturn ==
    /\ pc = "filter"
    /\ ridx = Len(results)
    /\ pc' = "returned"
    /\ UNCHANGED <<phraseVars, processVars, rerankVars, formatVars, answerVars, nlpVars,
                   chunkVars, alphaVars, queryVars>>

QueryNext == ExtractCall \/ RetrieveStart \/ RetrieveFilterStep \/ RetrieveReturn

SpecQuery == QueryInit /\ [][QueryNext]_vars

----------------------------------------------------------------------------
(* Mode detection and the blend weight as a state machine *)

\* Either detect_query_modes is about to run on a query, or a caller is about
\* to pass a mode vector of its own to compute_alpha_from_query_modes
AlphaInit ==
    /\ ChunkIdle
    /\ top_k = 0
    /\ module = ""
    /\ book = None
    /\ chapter = None
    /\ verse_range = None
    /\ where = None
    /\ results = <<>>
    /\ retrieved = <<>>
    /\ ridx = 0
    /\ RerankIdle
    /\ FormatIdle
    /\ AnswerIdle
    /\ NlpIdle
    /\ PhraseIdle
    /\ ProcessIdle
    /\ alpha = None
    /\ \/ /\ query \in ModeQueries
          /\ pattern_hits \in { Some(h) : h \in HitVectors }
          /\ what_happened = FALSE
          /\ query_modes = None
          /\ pc = "detect"
       \/ /\ query = <<>>
          /\ pattern_hits = None
          /\ what_happened = FALSE
          /\ query_modes \in { Some(m) : m \in [ModeNames -> ModeGrid] }
          /\ pc = "modes"

\* query_modes = detect_query_modes(query)
DetectModes ==
    /\ pc = "detect"
    /\ what_happened' = WhatHappenedIn(query)
    /\ query_modes' = Some(DetectQueryModes(pattern_hits[1], WhatHappenedIn(query)))
    /\ pc' = "modes"
    /\ UNCHANGED <<phraseVars, processVars, rerankVars, formatVars, answerVars, nlpVars,
                   chunkVars, queryVars, pattern_hits, alpha>>

\* alpha = compute_alpha_from_query_modes(query_modes)
ComputeAlphaCall ==
    /\ pc = "modes"
    /\ alpha' = Some(ComputeAlpha(query_modes[1]))
    /\ pc' = "alpha_done"
    /\ UNCHANGED <<phraseVars, processVars, rerankVars, formatVars, answerVars, nlpVars,
                   chunkVars, queryVars, pattern_hits, what_happened, query_modes>>

AlphaNext == DetectModes \/ ComputeAlphaCall

SpecAlpha == AlphaInit /\ [][AlphaNext]_vars

----------------------------------------------------------------------------
(* rerank_chunks as a state machine *)

RerankInit ==
    /\ ChunkIdle
    /\ QueryIdle
    /\ FormatIdle
    /\ AnswerIdle
    /\ NlpIdle
    /\ PhraseIdle
    /\ ProcessIdle
    /\ pattern_hits \in { Some(h) : h \in RerankHits }
    /\ what_happened = FALSE
    /\ query_modes = None
    /\ alpha = None
    /\ rr_chunks \in RetrievedLists
    /\ phrase_scores \in PhraseAssignments
    /\ min_score \in MinScores
    /\ filtered_chunks = <<>>
    /\ cidx = 0
    /\ reranked = None
    /\ pc = "rerank"

\* query_modes = detect_query_modes(query); alpha = compute_alpha_from_query_modes(...)
RerankBegin ==
    /\ pc = "rerank"
    /\ LET m == DetectQueryModes(pattern_hits[1], what_happened)
       IN  /\ query_modes' = Some(m)
           /\ alpha' = Some(ComputeAlpha(m))
    /\ pc' = "score"
    /\ UNCHANGED <<phraseVars, processVars, chunkVars, queryVars, formatVars, answerVars, nlpVars,
                   pattern_hits, what_happened, rerankVars>>

\* one iteration of `for chunk in chunks`
RerankScoreStep ==
    /\ pc = "score"
    /\ cidx < Len(rr_chunks)
    /\ LET st == ScoreStep(rr_chunks, filtered_chunks, cidx + 1, alpha[1],
                           phrase_scores, min_score)
       IN  /\ rr_chunks' = st.chunks
           /\ filtered_chunks' = st.filtered
    /\ cidx' = cidx + 1
    /\ UNCHANGED <<phraseVars, processVars, chunkVars, queryVars, alphaVars, formatVars, answerVars, nlpVars,
                   phrase_scores, min_score, reranked, pc>>

\* return sorted(filtered_chunks, ...)
RerankReturn ==
    /\ pc = "score"
    /\ cidx = Len(rr_chunks)
    /\ reranked' = Some(SortedDescending(rr_chunks, filtered_chunks))
    /\ pc' = "reranked"
    /\ UNCHANGED <<phraseVars, processVars, chunkVars, queryVars, alphaVars, formatVars, answerVars, nlpVars,
                   rr_chunks, phrase_scores, min_score, filtered_chunks, cidx>>

RerankNext == RerankBegin \/ RerankScoreStep \/ RerankReturn

SpecRerank == RerankInit /\ [][RerankNext]_vars

----------------------------------------------------------------------------
(* format_context as a state machine *)

FormatInit ==
    /\ ChunkIdle
    /\ QueryIdle
    /\ AlphaIdle
    /\ RerankIdle
    /\ AnswerIdle
    /\ NlpIdle
    /\ PhraseIdle
    /\ ProcessIdle
    /\ \E n \in 0..MaxCandidates, shift \in 0..4 :
           /\ retrieved_chunks = FormatCandidates(n, shift)
           /\ verse_indices = OffsetIndex(n, shift)
    /\ passages = <<>>
    /\ fidx = 0
    /\ formatted = None
    /\ pc = "format"

\* one iteration of `for idx, chunk in enumerate(retrieved_chunks[:CHUNK_LIMIT], start=1)`
FormatIteration ==
    /\ pc = "format"
    /\ fidx < Len(LimitedChunks(retrieved_chunks))
    /\ passages' = Append(passages,
                          PassageBlock(fidx + 1, LimitedChunks(retrieved_chunks)[fidx + 1],
                                       verse_indices))
    /\ fidx' = fidx + 1
    /\ UNCHANGED <<phraseVars, processVars, chunkVars, queryVars, alphaVars, rerankVars, answerVars, nlpVars,
                   retrieved_chunks, verse_indices, formatted, pc>>

\* return "\n".join(passages)
FormatReturn ==
    /\ pc = "format"
    /\ fidx = Len(LimitedChunks(retrieved_chunks))
    /\ formatted' = Some(JoinLines(passages))
    /\ pc' = "formatted"
    /\ UNCHANGED <<phraseVars, processVars, chunkVars, queryVars, alphaVars, rerankVars, answerVars, nlpVars,
                   retrieved_chunks, verse_indices, passages, fidx>>

FormatNext == FormatIteration \/ FormatReturn

SpecFormat == FormatInit /\ [][FormatNext]_vars

----------------------------------------------------------------------------
(* retrieve_and_answer as a state machine *)

AnswerInit ==
    /\ ChunkIdle
    /\ AlphaIdle
    /\ RerankIdle
    /\ FormatIdle
    /\ NlpIdle
    /\ PhraseIdle
    /\ ProcessIdle
    /\ query \in Queries
    /\ top_k \in 1..MaxTopK
    /\ module = ""
    /\ book = None
    /\ chapter = None
    /\ verse_range = None
    /\ where = None
    /\ results = <<>>
    /\ retrieved = <<>>
    /\ ridx = 0
    /\ use_llm \in BOOLEAN
    /\ verbose \in BOOLEAN
    /\ outcome = None
    /\ pc = "answer"

\* retrieve_and_answer: context = retrieve_context(query, top_k=top_k, verbose=verbose)
AnswerCallsContext ==
    /\ pc = "answer"
    /\ pc' = "context"
    /\ UNCHANGED <<phraseVars, processVars, chunkVars, queryVars, alphaVars, rerankVars, formatVars, answerVars,
                   nlpVars>>

\* retrieve_context: retrieved = retrieve_chunks(collection, query, top_k=top_k,
\* verbose=verbose); the arguments do not bind, so the call raises TypeError
ContextCallsRetrieve ==
    /\ pc = "context"
    /\ ~Binds(RetrieveChunksParameters, ContextCall)
    /\ outcome' = Raised("TypeError")
    /\ pc' = "context_raised"
    /\ UNCHANGED <<phraseVars, processVars, chunkVars, queryVars, alphaVars, rerankVars, formatVars, nlpVars,
                   use_llm, verbose>>

\* neither retrieve_context nor retrieve_and_answer has a handler: the
\* exception leaves retrieve_and_answer
AnswerPropagates ==
    /\ pc = "context_raised"
    /\ pc' = "answer_ended"
    /\ UNCHANGED <<phraseVars, processVars, chunkVars, queryVars, alphaVars, rerankVars, formatVars, answerVars,
                   nlpVars>>

AnswerNext == AnswerCallsContext \/ ContextCallsRetrieve \/ AnswerPropagates

SpecAnswer == AnswerInit /\ [][AnswerNext]_vars

----------------------------------------------------------------------------
(* Concurrent callers of get_spacy_nlp: one action per step between which  *)
(* the interpreter may switch threads                                      *)

NlpInit ==
    /\ ChunkIdle
    /\ QueryIdle
    /\ AlphaIdle
    /\ RerankIdle
    /\ FormatIdle
    /\ AnswerIdle
    /\ PhraseIdle
    /\ ProcessIdle
    /\ nlp_module \in NlpModules
    /\ nlp = None
    /\ loads = 0
    /\ \E n \in 1..MaxCallers :
           /\ caller_pc = [c \in 1..n |-> "check"]
           /\ caller_nlp = [c \in 1..n |-> None]
    /\ pc = "nlp"

\* if _nlp is None: (the handle is set, the caller goes on to the return)
NlpCheckSet ==
    \E c \in DOMAIN caller_pc :
        /\ caller_pc[c] = "check"
        /\ ~HandleIsNone(nlp)
        /\ caller_pc' = [caller_pc EXCEPT ![c] = "return"]
        /\ UNCHANGED <<phraseVars, processVars, chunkVars, queryVars, alphaVars, rerankVars, formatVars, answerVars,
                       nlp_module, nlp, loads, caller_nlp, pc>>

\* if _nlp is None: (the handle is None, the caller goes on to load)
NlpCheckNone ==
    \E c \in DOMAIN caller_pc :
        /\ caller_pc[c] = "check"
        /\ HandleIsNone(nlp)
        /\ caller_pc' = [caller_pc EXCEPT ![c] = "load"]
        /\ UNCHANGED <<phraseVars, processVars, chunkVars, queryVars, alphaVars, rerankVars, formatVars, answerVars,
                       nlp_module, nlp, loads, caller_nlp, pc>>

\* spacy.load("en_core_web_sm", ...) runs and returns a model
NlpLoad ==
    \E c \in DOMAIN caller_pc :
        /\ caller_pc[c] = "load"
        /\ loads' = loads + 1
        /\ caller_nlp' = [caller_nlp EXCEPT ![c] = Some(SpacyLoad(loads + 1))]
        /\ caller_pc' = [caller_pc EXCEPT ![c] = "store"]
        /\ UNCHANGED <<phraseVars, processVars, chunkVars, queryVars, alphaVars, rerankVars, formatVars, answerVars,
                       nlp_module, nlp, pc>>

\* _nlp = <the loaded model>
NlpStore ==
    \E c \in DOMAIN caller_pc :
        /\ caller_pc[c] = "store"
        /\ nlp' = caller_nlp[c]
        /\ caller_pc' = [caller_pc EXCEPT ![c] = "return"]
        /\ UNCHANGED <<phraseVars, processVars, chunkVars, queryVars, alphaVars, rerankVars, formatVars, answerVars,
                       nlp_module, loads, caller_nlp, pc>>

\* return _nlp
NlpReturn ==
    \E c \in DOMAIN caller_pc :
        /\ caller_pc[c] = "return"
        /\ caller_nlp' = [caller_nlp EXCEPT ![c] = nlp]
        /\ caller_pc' = [caller_pc EXCEPT ![c] = "returned"]
        /\ UNCHANGED <<phraseVars, processVars, chunkVars, queryVars, alphaVars, rerankVars, formatVars, answerVars,
                       nlp_module, nlp, loads, pc>>

NlpNext == NlpCheckSet \/ NlpCheckNone \/ NlpLoad \/ NlpStore \/ NlpReturn

SpecNlp == NlpInit /\ [][NlpNext]_vars

----------------------------------------------------------------------------
(* rerank_chunks scoring one candidate, followed down to the divisions of  *)
(* detect_query_modes and compute_phrase_overlap                           *)

PhraseInit ==
    /\ ChunkIdle
    /\ QueryIdle
    /\ RerankIdle
    /\ FormatIdle
    /\ AnswerIdle
    /\ NlpIdle
    /\ ProcessIdle
    /\ pattern_hits \in { Some(h) : h \in RerankHits }
    /\ what_happened = FALSE
    /\ query_modes = None
    /\ alpha = None
    /\ query_doc \in QueryDocs
    /\ chunk_doc \in ChunkDocs
    /\ query_phrases = None
    /\ chunk_phrases = None
    /\ divisors = <<>>
    /\ overlap_result = None
    /\ pc = "phrase_modes"

\* query_modes = detect_query_modes(query): five _score_patterns calls
PhraseDetectModes ==
    /\ pc = "phrase_modes"
    /\ LET m == DetectQueryModes(pattern_hits[1], what_happened)
       IN  /\ query_modes' = Some(m)
           /\ alpha' = Some(ComputeAlpha(m))
    /\ divisors' = divisors \o PatternDivisors
    /\ pc' = "extract_query"
    /\ UNCHANGED <<chunkVars, queryVars, rerankVars, formatVars, answerVars, nlpVars,
                   processVars, pattern_hits, what_happened, query_doc, chunk_doc,
                   query_phrases, chunk_phrases, overlap_result>>

\* query_phrases = set(extract_phrases(query.lower()))
ExtractQueryPhrases ==
    /\ pc = "extract_query"
    /\ query_phrases' = Some(ToSet(ExtractPhrases(query_doc)))
    /\ pc' = "extract_chunk"
    /\ UNCHANGED <<chunkVars, queryVars, alphaVars, rerankVars, formatVars, answerVars,
                   nlpVars, processVars, query_doc, chunk_doc, chunk_phrases,
                   divisors, overlap_result>>

\* chunk_phrases = set(extract_phrases(chunk_text.lower()))
ExtractChunkPhrases ==
    /\ pc = "extract_chunk"
    /\ chunk_phrases' = Some(ToSet(ExtractPhrases(chunk_doc)))
    /\ pc' = "overlap"
    /\ UNCHANGED <<chunkVars, queryVars, alphaVars, rerankVars, formatVars, answerVars,
                   nlpVars, processVars, query_doc, chunk_doc, query_phrases,
                   divisors, overlap_result>>

\* if not query_phrases or not chunk_phrases: return 0.0
OverlapEarlyReturn ==
    /\ pc = "overlap"
    /\ PhraseSetMissing(query_phrases[1], chunk_phrases[1])
    /\ overlap_result' = ComputePhraseOverlap(query_phrases[1], chunk_phrases[1])
    /\ divisors' = divisors \o OverlapDivisors(query_phrases[1], chunk_phrases[1])
    /\ pc' = "overlap_done"
    /\ UNCHANGED <<chunkVars, queryVars, alphaVars, rerankVars, formatVars, answerVars,
                   nlpVars, processVars, query_doc, chunk_doc, query_phrases,
                   chunk_phrases>>

\* the rest of compute_phrase_overlap: overlap ... return min(1.0, bumped)
OverlapCompute ==
    /\ pc = "overlap"
    /\ ~PhraseSetMissing(query_phrases[1], chunk_phrases[1])
    /\ overlap_result' = ComputePhraseOverlap(query_phrases[1], chunk_phrases[1])
    /\ divisors' = divisors \o OverlapDivisors(query_phrases[1], chunk_phrases[1])
    /\ pc' = "overlap_done"
    /\ UNCHANGED <<chunkVars, queryVars, alphaVars, rerankVars, formatVars, answerVars,
                   nlpVars, processVars, query_doc, chunk_doc, query_phrases,
                   chunk_phrases>>

PhraseNext ==
    \/ PhraseDetectModes
    \/ ExtractQueryPhrases
    \/ ExtractChunkPhrases
    \/ OverlapEarlyReturn
    \/ OverlapCompute

SpecPhrase == PhraseInit /\ [][PhraseNext]_vars

----------------------------------------------------------------------------
(* The query-serving process as a state machine *)

ProcessInit ==
    /\ ChunkIdle
    /\ QueryIdle
    /\ AlphaIdle
    /\ RerankIdle
    /\ FormatIdle
    /\ AnswerIdle
    /\ NlpIdle
    /\ PhraseIdle
    /\ handles = [m \in NlpModules |-> None]
    /\ constructed = 0
    /\ served = 0
    /\ pending = <<>>
    /\ preprocess_nlp = None
    /\ extract_nlp = None
    /\ pc = "serve"

\* chunks = retrieve_chunks(collection, query, top_k): preprocess_query
\* obtains the model, the index answers, the filtered list is returned
ServeRetrieve ==
    /\ pc = "serve"
    /\ served < MaxQueries
    /\ LET g == GetSpacyNlp(handles, PreprocessQueryModule, constructed)
       IN  /\ handles' = g.handles
           /\ constructed' = g.constructed
           /\ preprocess_nlp' = g.nlp
    /\ pending' \in RetrievedLists
    /\ pc' = "rerank"
    /\ UNCHANGED <<chunkVars, queryVars, alphaVars, rerankVars, formatVars, answerVars,
                   nlpVars, phraseVars, served, extract_nlp>>

\* rerank_chunks: one iteration of `for chunk in chunks`, whose
\* compute_phrase_overlap call runs extract_phrases on the query and the text
ServeScoreCandidate ==
    /\ pc = "rerank"
    /\ pending # <<>>
    /\ LET g == ExtractPhrasesTwice(handles, constructed)
       IN  /\ handles' = g.handles
           /\ constructed' = g.constructed
           /\ extract_nlp' = g.nlp
    /\ pending' = Tail(pending)
    /\ UNCHANGED <<chunkVars, queryVars, alphaVars, rerankVars, formatVars, answerVars,
                   nlpVars, phraseVars, served, preprocess_nlp, pc>>

\* rerank_chunks returns; the loop goes on to the next query
ServeDone ==
    /\ pc = "rerank"
    /\ pending = <<>>
    /\ served' = served + 1
    /\ pc' = "serve"
    /\ UNCHANGED <<chunkVars, queryVars, alphaVars, rerankVars, formatVars, answerVars,
                   nlpVars, phraseVars, handles, constructed, pending, preprocess_nlp,
                   extract_nlp>>

ProcessNext == ServeRetrieve \/ ServeScoreCandidate \/ ServeDone

SpecProcess == ProcessInit /\ [][ProcessNext]_vars

----------------------------------------------------------------------------
(* Properties of the chunker *)

Range(s) == { s[k] : k \in 1..Len(s) }

Indexed(c) == "verse_indices" \in DOMAIN c

\* the text of the source verse with the given reference
SourceText(ch, vs) ==
    (CHOOSE v \in Range(verses) : v.chapter = ch /\ v.verse = vs).text

\* C1 - Offset correctness: in every chunk returned by
\* chunk_verses_min_first_with_indexing, every verse_indices entry e has
\* chunk.text[e.start:e.end] equal to the text of the source verse
\* (e.chapter, e.verse), the final remainder chunk included.
C1_OffsetCorrectness ==
    \A k \in 1..Len(chunks) :
        Indexed(chunks[k]) =>
            \A j \in 1..Len(chunks[k].verse_indices) :
                LET e == chunks[k].verse_indices[j]
                IN  /\ \E v \in Range(verses) : v.chapter = e.chapter /\ v.verse = e.verse
                    /\ Slice(chunks[k].text, e.start, e.end) = SourceText(e.chapter, e.verse)

\* C1 witness: the call has returned, the last chunk is the remainder chunk
\* and holds at least two verses, the second one non-empty.
C1_Witness ==
    /\ pc = "done"
    /\ fn = "min_first_with_indexing"
    /\ Len(chunks) >= 2
    /\ ~Last(in_loop)
    /\ Len(Last(chunks).verse_indices) >= 2
    /\ Last(chunks).verse_indices[2].end > Last(chunks).verse_indices[2].start + 1

\* C2 - Offset layout: the first entry starts at 0, each next entry starts
\* one character after the previous entry's end, each entry is as long as its
\* verse text, and the last entry ends at the length of chunk.text.
C2_OffsetLayout ==
    \A k \in 1..Len(chunks) :
        Indexed(chunks[k]) =>
            LET vi == chunks[k].verse_indices
            IN  /\ Len(vi) = Len(members[k])
                /\ Len(vi) >= 1
                /\ vi[1].start = 0
                /\ \A j \in 1..(Len(vi) - 1) : vi[j + 1].start = vi[j].end + 1
                /\ \A j \in 1..Len(vi) : vi[j].end - vi[j].start = Len(members[k][j].text)
                /\ Last(vi).end = Len(chunks[k].text)

\* C2 witness: a chunk of three verses, one of them empty, has been emitted.
C2_Witness ==
    \E k \in 1..Len(chunks) :
        /\ Indexed(chunks[k])
        /\ Len(chunks[k].verse_indices) >= 3
        /\ \E j \in 1..Len(members[k]) : members[k][j].text = <<>>
        /\ \E j \in 1..Len(members[k]) : Len(members[k][j].text) >= 2

\* C3 - Chunk coverage: when the chunker returns, every input verse is in at
\* least one chunk and every verse of every chunk is an input verse.
C3_Coverage ==
    pc = "done" =>
        /\ Len(members) = Len(chunks)
        /\ \A p \in 1..Len(verses) :
               \E k \in 1..Len(chunks) :
                   /\ verses[p] \in Range(members[k])
                   /\ Indexed(chunks[k]) =>
                          \E j \in 1..Len(chunks[k].verse_indices) :
                              /\ chunks[k].verse_indices[j].chapter = verses[p].chapter
                              /\ chunks[k].verse_indices[j].verse = verses[p].verse
        /\ \A k \in 1..Len(chunks) : Range(members[k]) \subseteq Range(verses)

\* C3 witness: a run over at least three verses that ends with verses left
\* over after the last chunk emitted in the loop.
C3_Witness ==
    /\ pc = "done"
    /\ Len(verses) >= 3
    /\ Len(chunks) >= 2
    /\ ~Last(in_loop)
    /\ Last(Last(members)) \notin Range(members[Len(members) - 1])

\* C4 - Minimum-word invariant: every chunk but the last of the list has a
\* summed word count of its verses (overlap verses included) >= min_words.
C4_MinimumWords ==
    \A k \in 1..(Len(chunks) - 1) : SumWords(members[k]) >= min_words

\* C4 witness: three or more chunks were returned and the last is short.
C4_Witness ==
    /\ pc = "done"
    /\ min_words >= 2
    /\ Len(chunks) >= 3
    /\ SumWords(Last(members)) < min_words

\* number of verses two consecutive chunks have in common
Shared(k) == Cardinality(Range(members[k]) \cap Range(members[k + 1]))

\* the last n verses of chunk k are the first n verses of chunk k + 1
TailIsHead(k, n) ==
    /\ n <= Len(members[k])
    /\ n <= Len(members[k + 1])
    /\ SubSeq(members[k], Len(members[k]) - n + 1, Len(members[k]))
           = SubSeq(members[k + 1], 1, n)

\* C5 as stated - Overlap: any two consecutive chunks share exactly
\* chunk_overlap verses, the last chunk_overlap verses of chunk k being the
\* first chunk_overlap verses of chunk k+1.
C5_OverlapExact ==
    \A k \in 1..(Len(chunks) - 1) :
        /\ TailIsHead(k, chunk_overlap)
        /\ Shared(k) = chunk_overlap

\* C5 amended - Overlap: any two consecutive chunks share exactly
\* min(chunk_overlap, number of verses of chunk k) verses: that many trailing
\* verses of chunk k are the leading verses of chunk k+1 and no other verse is
\* common to both.
C5_OverlapCapped ==
    \A k \in 1..(Len(chunks) - 1) :
        LET n == Min2(chunk_overlap, Len(members[k]))
        IN  /\ TailIsHead(k, n)
            /\ Shared(k) = n

\* C5 witness: one pair of chunks overlaps by the full chunk_overlap, another
\* pair by fewer because the earlier chunk is shorter than chunk_overlap.
C5_Witness ==
    /\ chunk_overlap >= 2
    /\ \E k \in 1..(Len(chunks) - 1) : Len(members[k]) < chunk_overlap
    /\ \E k \in 1..(Len(chunks) - 1) :
           Len(members[k]) > chunk_overlap /\ Len(members[k + 1]) > chunk_overlap

\* C6 - Chunk-count monotonicity: for the same verses and chunk_overlap, a
\* larger min_words never gives more chunks than the run that just returned.
C6_CountMonotonic ==
    pc = "done" =>
        \A m2 \in 0..(MaxMinWords + 1) :
            min_words < m2 =>
                Len(chunks) >= Len(ChunkVersesMinFirst(fn, verses, m2, chunk_overlap))

\* C6 witness: a returned run with at least three chunks for which some
\* larger min_words gives strictly fewer chunks.
C6_Witness ==
    /\ pc = "done"
    /\ chunk_overlap >= 1
    /\ Len(chunks) >= 3
    /\ \E m2 \in 0..(MaxMinWords + 1) :
           /\ min_words < m2
           /\ Len(chunks) > Len(ChunkVersesMinFirst(fn, verses, m2, chunk_overlap))

----------------------------------------------------------------------------
(* Properties of book/chapter extraction and of the retrieval adapter *)

FoldAll(t) == [k \in 1..Len(t) |-> Fold(t[k])]

\* the text of the first book mention of the query, None when there is none
FirstMention(q) ==
    IF BookSearch(q) = None THEN None
    ELSE Some(Slice(q, BookSearch(q)[1].start, BookSearch(q)[1].end))

\* the alias spellings (the last four entries of BIBLE_BOOKS) and the book
\* each one stands for
AliasTable ==
    << [alias |-> BIBLE_BOOKS[67], canonical |-> BIBLE_ORDER[19]],
       [alias |-> BIBLE_BOOKS[68], canonical |-> BIBLE_ORDER[20]],
       [alias |-> BIBLE_BOOKS[69], canonical |-> BIBLE_ORDER[25]],
       [alias |-> BIBLE_BOOKS[70], canonical |-> BIBLE_ORDER[66]] >>

\* the stored book name a mention stands for: an alias gives its book, any
\* other mention the BIBLE_ORDER name it spells, in whatever letter case
CanonicalName(t) ==
    IF \E a \in 1..Len(AliasTable) : FoldAll(AliasTable[a].alias) = FoldAll(t)
    THEN AliasTable[CHOOSE a \in 1..Len(AliasTable) :
                        FoldAll(AliasTable[a].alias) = FoldAll(t)].canonical
    ELSE BIBLE_ORDER[CHOOSE n \in 1..Len(BIBLE_ORDER) :
                         FoldAll(BIBLE_ORDER[n]) = FoldAll(t)]

\* C7 - Book alias normalization: whenever the first book name found in the
\* query is one of the aliases Psalm, Proverb, Lamentation, Revelations, in
\* any letter case, extract_book_chapter returns the canonical name as book.
C7_AliasNormalized ==
    pc = "extracted" =>
        \A a \in 1..Len(AliasTable) :
            (/\ FirstMention(query) # None
             /\ FoldAll(FirstMention(query)[1]) = FoldAll(AliasTable[a].alias))
            => book = Some(AliasTable[a].canonical)

\* C8 - Book pre-filter: retrieve_chunks passes a metadata filter to the index
\* exactly when the raw query names a book, and the filter is an equality on
\* the book name as ingestion stored it (the canonical name of that book).
C8_BookPreFilter ==
    pc \in {"filter", "returned"} =>
        /\ (where # None) <=> (FirstMention(query) # None)
        /\ where # None =>
               /\ \E n \in 1..Len(BIBLE_ORDER) : where[1].book = BIBLE_ORDER[n]
               /\ where[1].book = CanonicalName(FirstMention(query)[1])

\* C9 - Chapter post-filter: with a chapter c extracted, retrieve_chunks
\* returns exactly the index's candidates with chapter_start <= c <=
\* chapter_end; with none extracted it returns them all; the survivors keep
\* the index's order and there are at most top_k of them.
C9_ChapterPostFilter ==
    pc = "returned" =>
        LET Keeps(c) ==
                /\ c.metadata.chapter_start <= chapter[1]
                /\ chapter[1] <= c.metadata.chapter_end
        IN  /\ chapter = None => retrieved = results
            /\ chapter # None => retrieved = SelectSeq(results, Keeps)
            /\ Len(retrieved) <= top_k

\* C9 witness: retrieve_chunks has returned for a query naming chapter 4; the
\* index had answered with the chunk of chapters 3..5, which is kept, the chunk
\* of chapter 4 and the chunk of chapter 23, which is dropped.
C9_Witness ==
    /\ pc = "returned"
    /\ chapter = Some(4)
    /\ Len(results) >= 3
    /\ Len(retrieved) >= 2
    /\ \E j \in 1..Len(retrieved) :
           retrieved[j].metadata.chapter_start = 3 /\ retrieved[j].metadata.chapter_end = 5
    /\ \E j \in 1..Len(results) :
           /\ results[j].metadata.chapter_start = 23
           /\ \A k \in 1..Len(retrieved) : retrieved[k].id # results[j].id

----------------------------------------------------------------------------
(* Properties of the blend weight *)

\* C10 - Alpha bounds: for every mode vector with values in [0,1], those of
\* detect_query_modes included, compute_alpha_from_query_modes returns an
\* alpha with 0.1 <= alpha <= 0.9.
C10_AlphaBounds ==
    pc = "alpha_done" =>
        /\ \A k \in ModeNames : 0 <= query_modes[1][k] /\ query_modes[1][k] <= One
        /\ Tenths(1) <= alpha[1]
        /\ alpha[1] <= Tenths(9)

\* C10 witness: alpha was computed for a detected vector with every law and
\* every lookup pattern matching, where the weighted sum is 0.0 before the clamp.
C10_Witness ==
    /\ pc = "alpha_done"
    /\ pattern_hits # None
    /\ query_modes[1]["law"] = One
    /\ query_modes[1]["lookup"] = One
    /\ query_modes[1]["open"] = 0
    /\ alpha[1] = Tenths(1)

----------------------------------------------------------------------------
(* Properties of the reranker *)

\* re_rank_score of the candidate at position p of the input list
ScoreAt(p) == rr_chunks[p].re_rank_score

\* C11 (rerank threshold and order): when rerank_chunks has returned, the
\* returned list holds exactly the input candidates whose re_rank_score is at
\* least min_score, each once, and re_rank_score never increases along it.
C11_ThresholdAndOrder ==
    pc = "reranked" =>
        LET out == reranked[1]
        IN  /\ \A p \in 1..Len(rr_chunks) :
                   (p \in Range(out)) <=> (ScoreAt(p) >= min_score * One)
            /\ Range(out) \subseteq 1..Len(rr_chunks)
            /\ Cardinality(Range(out)) = Len(out)
            /\ \A j \in 1..(Len(out) - 1) : ScoreAt(out[j]) >= ScoreAt(out[j + 1])

\* a call returned, one candidate scored exactly min_score and was kept, one
\* was dropped, and the input order of two kept candidates was changed
C11_Witness ==
    /\ pc = "reranked"
    /\ \E p \in Range(reranked[1]) : ScoreAt(p) = min_score * One
    /\ \E p \in 1..Len(rr_chunks) : p \notin Range(reranked[1])
    /\ \E j \in 1..(Len(reranked[1]) - 1) : reranked[1][j] > reranked[1][j + 1]

\* C12 (rerank tie-break): two returned candidates with equal re_rank_score
\* are returned in the order in which they stood in the input list.
C12_StableTies ==
    pc = "reranked" =>
        LET out == reranked[1]
        IN  \A j, k \in 1..Len(out) :
                (j < k /\ ScoreAt(out[j]) = ScoreAt(out[k])) => out[j] < out[k]

\* a call returned two candidates with equal scores behind one that stood
\* after them in the input and scored higher
C12_Witness ==
    /\ pc = "reranked"
    /\ LET out == reranked[1]
       IN  \E j, k, l \in 1..Len(out) :
               /\ l < j /\ j < k
               /\ ScoreAt(out[j]) = ScoreAt(out[k])
               /\ ScoreAt(out[l]) > ScoreAt(out[j])
               /\ out[l] > out[j]

C14_NearerNotLower ==
    pc = "reranked" =>
        \A p, q \in 1..Len(rr_chunks) :
            ( /\ phrase_scores[rr_chunks[p].id] = phrase_scores[rr_chunks[q].id]
              /\ rr_chunks[p].score < rr_chunks[q].score )
            => ScoreAt(p) >= ScoreAt(q)

----------------------------------------------------------------------------
(* Properties of the context assembler *)

\* the elements of a set of numbers in increasing order
Ascending(S) ==
    [j \in 1..Cardinality(S) |-> CHOOSE x \in S : Cardinality({ y \in S : y < x }) = j - 1]

\* the lines of a string (split at every newline)
SplitLines(str) ==
    LET breaks == Ascending({ p \in 1..Len(str) : str[p] = "\n" })
        from(j) == IF j = 1 THEN 1 ELSE breaks[j - 1] + 1
        to(j)   == IF j > Len(breaks) THEN Len(str) ELSE breaks[j] - 1
    IN  [j \in 1..(Len(breaks) + 1) |-> SubSeq(str, from(j), to(j))]

StartsWith(str, prefix) ==
    Len(str) >= Len(prefix) /\ SubSeq(str, 1, Len(prefix)) = prefix

PassageOpen == <<"[", "P", "a", "s", "s", "a", "g", "e", " ">>

\* the output as lines, with the positions of its [Passage N] lines
ParsedOutput ==
    LET lines == SplitLines(formatted[1])
    IN  [lines |-> lines,
         heads |-> Ascending({ p \in 1..Len(lines) : StartsWith(lines[p], PassageOpen) })]

\* the lines of the k-th block below its reference line
BodyLines(out, k) ==
    LET from == out.heads[k] + 2
        to   == IF k < Len(out.heads) THEN out.heads[k + 1] - 1 ELSE Len(out.lines)
    IN  SubSeq(out.lines, from, to)

ReferenceLine(chunk) == <<"C", "h", "u", "n", "k", " ", "r", "e", "f", "e", "r", "e", "n", "c", "e", ":", " ">> \o Reference(chunk.metadata)

\* C15 (context cap and numbering): the output of format_context has exactly
\* min(n, 15) passage blocks, block k is labelled [Passage k] and carries the
\* reference of the k-th input candidate, and no candidate after the 15th
\* appears in it.
C15_ContextCap ==
    pc = "formatted" =>
        LET n   == Len(retrieved_chunks)
            m   == IF n < 15 THEN n ELSE 15
            out == ParsedOutput
        IN  /\ Len(out.heads) = m
            /\ \A k \in 1..m :
                   /\ out.lines[out.heads[k]] = PassageOpen \o IntToStr(k) \o <<"]">>
                   /\ out.lines[out.heads[k] + 1] = ReferenceLine(retrieved_chunks[k])
            /\ \A k \in 16..n : \A p \in 1..Len(out.lines) :
                   out.lines[p] # ReferenceLine(retrieved_chunks[k])

\* a call with more than 15 candidates has returned
C15_Witness ==
    /\ pc = "formatted"
    /\ Len(retrieved_chunks) > 15
    /\ Len(ParsedOutput.heads) = 15

\* the offset entries of the k-th candidate, None if its id has none
EntriesOf(k) ==
    IF retrieved_chunks[k].id \in DOMAIN verse_indices
    THEN Some(verse_indices[retrieved_chunks[k].id]) ELSE None

\* the verse line the claim describes: Book C:V, then the given verse text
ExpectedLine(chunk, v, verse_text) ==
    chunk.metadata.book \o <<" ">> \o IntToStr(v.chapter) \o <<":">> \o IntToStr(v.verse)
    \o <<" ", EmDash, " ", "\"">> \o verse_text \o <<"\"">>

\* what is emitted of a text: the text itself, or the text without its leading
\* and trailing whitespace
Emitted(str, stripping) == IF stripping THEN RStrip(LStrip(str)) ELSE str

\* the blocks of the first 15 candidates: the fallback block and one line per
\* offset entry, the emitted texts stripped or not
BlocksAre(stripping) ==
    pc = "formatted" =>
        LET out == ParsedOutput
        IN  \A k \in 1..Len(retrieved_chunks) : k <= 15 =>
            LET chunk == retrieved_chunks[k]
                e     == EntriesOf(k)
                body  == BodyLines(out, k)
            IN  IF e = None \/ e[1] = <<>>
                THEN body = <<Emitted(chunk.text, stripping)>>
                ELSE /\ Len(body) = Len(e[1])
                     /\ \A j \in 1..Len(e[1]) :
                            body[j] =
                                ExpectedLine(chunk, e[1][j],
                                             Emitted(Slice(chunk.text, e[1][j].start,
                                                           e[1][j].end), stripping))

----------------------------------------------------------------------------
(* Properties of the pipeline *)

\* C17 (empty-result sentinel): when retrieve_and_answer has ended for a query
\* for which retrieval yields no candidates, it has returned the fixed "no
\* relevant passages" message and has not raised.
C17_EmptySentinel ==
    (pc = "answer_ended" /\ RetrieveChunksResults(query, top_k) = {<<>>})
        => outcome = Returned(NoPassagesMessage)

----------------------------------------------------------------------------
(* Properties of the normalization model *)

\* C18 (singleton initialization under concurrency): however the callers of
\* get_spacy_nlp interleave, spacy.load is executed at most once, exactly once
\* when a caller has returned, and all callers that have returned hold the
\* same handle.
C18_LoadedOnce ==
    pc = "nlp" =>
        /\ loads <= 1
        /\ \A c, e \in DOMAIN caller_pc :
               (caller_pc[c] = "returned" /\ caller_pc[e] = "returned")
                   => (loads = 1 /\ caller_nlp[c] = caller_nlp[e])

----------------------------------------------------------------------------
(* Properties of mode detection *)

\* detect_query_modes has run on the query
Detected == pattern_hits # None /\ query_modes # None

\* the lower-cased query contains the phrase "what happened"
PhraseOccurs ==
    \E p \in 1..Len(query) :
        /\ p + 12 <= Len(query)
        /\ [j \in 1..13 |-> Fold(query[p + j - 1])] = <<"w", "h", "a", "t", " ", "h", "a", "p", "p", "e", "n", "e", "d">>

\* C19 (narrative mode) as stated: narrative is 1.0 if the lower-cased query
\* contains "what happened" and 0.0 otherwise.
C19_NarrativeBinary ==
    Detected => query_modes[1]["narrative"] = (IF PhraseOccurs THEN One ELSE 0)

\* C19 (narrative mode), amended: narrative is 0.3 if the lower-cased query
\* contains "what happened" and 0.0 otherwise.
C19_NarrativeWeak ==
    Detected => query_modes[1]["narrative"] = (IF PhraseOccurs THEN (3 * One) \div 10 ELSE 0)

\* detection has run on a query that contains the phrase in capitals
C19_Witness ==
    /\ Detected
    /\ PhraseOccurs
    /\ query[1] = "W"
    /\ query_modes[1]["narrative"] > 0

\* C20 (open mode): the vector detect_query_modes returns has exactly the
\* seven mode names as keys, every value is between 0 and 1, each pattern
\* category is matches / number of patterns, and open is max(0, 1 - the
\* largest of the other six values).
C20_OpenMode ==
    Detected =>
        LET m      == query_modes[1]
            hits   == pattern_hits[1]
            others == {"law", "discourse", "prophetic", "lookup", "wisdom", "narrative"}
            top    == CHOOSE x \in { m[k] : k \in others } : \A k \in others : m[k] <= x
        IN  /\ DOMAIN m = others \cup {"open"}
            /\ \A k \in DOMAIN m : 0 <= m[k] /\ m[k] <= One
            /\ m["law"] * 13 = hits["law"] * One
            /\ m["discourse"] * 16 = hits["discourse"] * One
            /\ m["prophetic"] * 10 = hits["prophetic"] * One
            /\ m["lookup"] * 8 = hits["lookup"] * One
            /\ m["wisdom"] * 9 = hits["wisdom"] * One
            /\ m["open"] = (IF One - top > 0 THEN One - top ELSE 0)

\* detection has run on a query that matches one pattern of a category and
\* none of another, and open lies strictly between 0 and 1
C20_Witness ==
    /\ Detected
    /\ pattern_hits[1]["law"] = 1
    /\ pattern_hits[1]["wisdom"] = 0
    /\ query_modes[1]["open"] > 0
    /\ query_modes[1]["open"] < One

----------------------------------------------------------------------------
(* Further properties of the chunker *)

\* the position in the input of a verse of the input
PositionOf(v) == CHOOSE p \in 1..Len(verses) : verses[p] = v

\* C23 - Degenerate overlap: when a chunk is emitted in the loop with v
\* verses and chunk_overlap >= v, the next accumulation is seeded with all v
\* verses and their summed word count, and the next chunk emitted consists of
\* the complete previous chunk followed by the verses read after it, its text
\* beginning with the previous chunk's text.
C23_DegenerateOverlap ==
    /\ \A k \in 1..(Len(chunks) - 1) :
           (in_loop[k] /\ chunk_overlap >= Len(members[k])) =>
               LET v    == Len(members[k])
                   last == PositionOf(Last(members[k]))
                   more == Len(members[k + 1]) - v
               IN  /\ more >= 0
                   /\ SubSeq(members[k + 1], 1, v) = members[k]
                   /\ SubSeq(members[k + 1], v + 1, v + more) = SubSeq(verses, last + 1, last + more)
                   /\ Slice(chunks[k + 1].text, 0, Len(chunks[k].text)) = chunks[k].text
    /\ (/\ pc = "loop"
        /\ chunks # <<>>
        /\ chunk_overlap >= Len(Last(members))
        /\ verses[i] = Last(Last(members)))
       => /\ current_chunk = Last(members)
          /\ current_word_count = SumWords(Last(members))

\* C23 witness: with chunk_overlap = 2 a chunk of two verses was emitted in
\* the loop and the chunk emitted next holds those two verses and a third.
C23_Witness ==
    /\ chunk_overlap = 2
    /\ min_words >= 2
    /\ \E k \in 1..(Len(chunks) - 1) :
           /\ in_loop[k] /\ in_loop[k + 1]
           /\ Len(members[k]) = 2
           /\ Len(members[k + 1]) = 3
           /\ SumWords(members[k]) = min_words

\* C26 - No redundant chunk: with chunk_overlap > 0, every chunk emitted
\* after the first, the final remainder chunk included, contains at least one
\* verse that the chunk emitted immediately before it does not contain.
C26_NoRedundantChunk ==
    chunk_overlap > 0 =>
        \A k \in 2..Len(chunks) :
            \E v \in Range(members[k]) : v \notin Range(members[k - 1])

\* the positions in the input of the first and of the last verse of chunk k
FirstPosition(k) == PositionOf(members[k][1])

LastPosition(k) == PositionOf(Last(members[k]))

\* C27 - Chunker equivalence: for the same verses, min_words and
\* chunk_overlap, chunk_verses_min_first and
\* chunk_verses_min_first_with_indexing return lists of the same length whose
\* chunks agree position by position on text and on every metadata field; the
\* chunks of the indexing variant have the one further key verse_indices.
C27_ChunkerEquivalence ==
    pc = "done" =>
        LET plain   == ChunkVersesMinFirst("min_first", verses, min_words, chunk_overlap)
            indexed == ChunkVersesMinFirst("min_first_with_indexing", verses,
                                           min_words, chunk_overlap)
        IN  /\ chunks = (IF fn = "min_first" THEN plain ELSE indexed)
            /\ Len(plain) = Len(indexed)
            /\ \A k \in 1..Len(plain) :
                   /\ plain[k].text = indexed[k].text
                   /\ plain[k].metadata = indexed[k].metadata
                   /\ DOMAIN plain[k] = {"text", "metadata"}
                   /\ DOMAIN indexed[k] = {"text", "metadata", "verse_indices"}

\* C27 witness: a returned run of three or more chunks, one of which holds an
\* empty verse text between two others.
C27_Witness ==
    /\ pc = "done"
    /\ Len(chunks) >= 3
    /\ \E k \in 1..Len(chunks) :
           /\ Len(members[k]) >= 3
           /\ members[k][2].text = <<>>
           /\ members[k][3].text # <<>>

\* C28 - Chunk contiguity and order: every chunk is a contiguous run
\* verses[a..b] of the input in input order, its verse_indices list those
\* verses in that order, its metadata start is taken from verses[a] and its
\* end from verses[b]; along the chunk list a and b never decrease, and b
\* strictly increases between chunks emitted inside the main loop.
C28_ContiguousOrdered ==
    /\ \A k \in 1..Len(chunks) :
           LET a == FirstPosition(k)
               b == LastPosition(k)
           IN  /\ members[k] # <<>>
               /\ members[k] = SubSeq(verses, a, b)
               /\ chunks[k].metadata.chapter_start = verses[a].chapter
               /\ chunks[k].metadata.verse_start = verses[a].verse
               /\ chunks[k].metadata.chapter_end = verses[b].chapter
               /\ chunks[k].metadata.verse_end = verses[b].verse
               /\ Indexed(chunks[k]) =>
                      /\ Len(chunks[k].verse_indices) = b - a + 1
                      /\ \A j \in 1..(b - a + 1) :
                             /\ chunks[k].verse_indices[j].chapter = verses[a + j - 1].chapter
                             /\ chunks[k].verse_indices[j].verse = verses[a + j - 1].verse
    /\ \A k \in 1..(Len(chunks) - 1) :
           /\ FirstPosition(k) <= FirstPosition(k + 1)
           /\ LastPosition(k) <= LastPosition(k + 1)
           /\ (in_loop[k] /\ in_loop[k + 1]) => LastPosition(k) < LastPosition(k + 1)

\* C28 witness: three chunks were returned, the first two emitted in the loop
\* with the same start and the last one, the remainder, ending where the
\* second ends.
C28_Witness ==
    /\ pc = "done"
    /\ fn = "min_first_with_indexing"
    /\ Len(chunks) = 3
    /\ in_loop[1] /\ in_loop[2] /\ ~in_loop[3]
    /\ FirstPosition(1) = FirstPosition(2)
    /\ FirstPosition(2) < FirstPosition(3)
    /\ LastPosition(2) = LastPosition(3)

----------------------------------------------------------------------------
(* Further properties of extraction, of the blend weight and of rerank_chunks *)

\* the offsets of the query at which a name of BIBLE_BOOKS occurs as a word
MentionOffsets(q) ==
    { p \in 0..Len(q) : \E n \in 1..Len(BIBLE_BOOKS) : MatchesAt(q, p, BIBLE_BOOKS[n]) }

\* the least offset of a non-empty set of offsets
Leftmost(offsets) == CHOOSE p \in offsets : \A o \in offsets : p <= o

\* the offset of the first character at or after offset p that is no space
SkipSpaces(q, p) ==
    CHOOSE e \in p..Len(q) :
        /\ \A k \in (p + 1)..e : IsSpace(q[k])
        /\ e < Len(q) => ~IsSpace(q[e + 1])

\* C22 - Reference extraction never fails: extract_book_chapter returns a
\* triple of optional values for every query; all three are None when no book
\* name occurs; otherwise the book is the leftmost mention (as written, or its
\* normalized name); chapter is set only if a book was found and a number of
\* one to three digits follows that mention after optional whitespace, whose
\* value it is; verse_range is set only if chapter is.
C22_ExtractionTotal ==
    pc = "extracted" =>
        LET offsets == MentionOffsets(query)
        IN  /\ Len(book) <= 1 /\ Len(chapter) <= 1 /\ Len(verse_range) <= 1
            /\ offsets = {} => (book = None /\ chapter = None /\ verse_range = None)
            /\ offsets # {} =>
                   LET p == Leftmost(offsets)
                       n == CHOOSE n \in 1..Len(BIBLE_BOOKS) :
                                MatchesAt(query, p, BIBLE_BOOKS[n])
                       matched == Slice(query, p, p + Len(BIBLE_BOOKS[n]))
                       d == SkipSpaces(query, p + Len(BIBLE_BOOKS[n]))
                   IN  /\ book # None
                       /\ book[1] \in {matched, NormalizeBook(matched)}
                       /\ chapter # None =>
                              /\ d < Len(query)
                              /\ IsDigit(query[d + 1])
                              /\ \E w \in 1..3 :
                                     /\ \A k \in 1..w : IsDigit(query[d + k])
                                     /\ w < 3 => (d + w = Len(query) \/ ~IsDigit(query[d + w + 1]))
                                     /\ chapter[1] = ToInt(Slice(query, d, d + w))
            /\ chapter # None => book # None
            /\ verse_range # None => chapter # None

\* C22 witness: the query mentions two books, a number follows each, and the
\* extraction returned the chapter that follows the first mention.
C22_Witness ==
    /\ pc = "extracted"
    /\ module = "preprocessing_query"
    /\ Cardinality(MentionOffsets(query)) >= 2
    /\ book = Some(<<"G", "e", "n", "e", "s", "i", "s">>)
    /\ chapter = Some(5)
    /\ verse_range = None

\* ten times the weighted sum of a mode vector, before the clamp
WeightedSum10(m) ==
    6 * One - 3 * m["law"] - 3 * m["lookup"] - 2 * m["prophetic"]
            + 2 * m["discourse"] + m["wisdom"] + m["open"]

\* C24 - Alpha formula: compute_alpha_from_query_modes returns
\* clamp(0.6 - 0.3*law - 0.3*lookup - 0.2*prophetic + 0.2*discourse
\* + 0.1*wisdom + 0.1*open, 0.1, 0.9); the narrative value has no term of its
\* own (another narrative value gives the same alpha); a vector with every
\* category 0 and open = 1, which is what a query matching no pattern gets,
\* gives alpha = 0.7.
C24_AlphaFormula ==
    pc = "alpha_done" =>
        LET m == query_modes[1]
            s == WeightedSum10(m)
        IN  /\ 10 * alpha[1] = (IF s < One THEN One ELSE IF s > 9 * One THEN 9 * One ELSE s)
            /\ \A x \in ModeGrid :
                   ComputeAlpha([m EXCEPT !["narrative"] = x]) = alpha[1]
            /\ (/\ \A k \in ModeNames \ {"open"} : m[k] = 0
                /\ m["open"] = One)
               => 10 * alpha[1] = 7 * One
            /\ (/\ pattern_hits # None
                /\ \A c \in PatternCategories : pattern_hits[1][c] = 0
                /\ ~what_happened)
               => 10 * alpha[1] = 7 * One

\* C24 witness: alpha was computed for a detected query that matches no
\* pattern and for which open is 1, and it is 0.7.
C24_Witness ==
    /\ pc = "alpha_done"
    /\ pattern_hits # None
    /\ \A c \in PatternCategories : pattern_hits[1][c] = 0
    /\ ~what_happened
    /\ query_modes[1]["open"] = One
    /\ 10 * alpha[1] = 7 * One

\* the keys of a candidate as retrieve_chunks builds it
CandidateKeys == {"id", "text", "metadata", "score"}

\* C29 - Rerank side effect: no step of rerank_chunks reorders or shortens
\* the input list or changes the id, text, metadata or score of a candidate;
\* the only key added is re_rank_score, and when the call returns every
\* candidate of the input list has it, those below min_score included; the
\* returned list refers to candidates of the input list, each at most once.
C29_RerankSideEffect ==
    [][ /\ Len(rr_chunks') = Len(rr_chunks)
        /\ \A k \in 1..Len(rr_chunks) :
               /\ \A key \in CandidateKeys : rr_chunks'[k][key] = rr_chunks[k][key]
               /\ DOMAIN rr_chunks'[k] \subseteq CandidateKeys \cup {"re_rank_score"}
        /\ pc' = "reranked" =>
               /\ \A k \in 1..Len(rr_chunks') : "re_rank_score" \in DOMAIN rr_chunks'[k]
               /\ \A j \in 1..Len(reranked'[1]) : reranked'[1][j] \in 1..Len(rr_chunks')
               /\ \A j, h \in 1..Len(reranked'[1]) :
                      j # h => reranked'[1][j] # reranked'[1][h]
      ]_vars

\* C29 witness: the call has returned fewer candidates than it was given, in
\* an order other than the input order, and a candidate that was not
\* returned carries its re_rank_score.
C29_Witness ==
    /\ pc = "reranked"
    /\ Len(rr_chunks) >= 3
    /\ Len(reranked[1]) >= 2
    /\ reranked[1][1] > reranked[1][2]
    /\ \E k \in 1..Len(rr_chunks) :
           /\ \A j \in 1..Len(reranked[1]) : reranked[1][j] # k
           /\ "re_rank_score" \in DOMAIN rr_chunks[k]
           /\ rr_chunks[k].re_rank_score < ScoreThreshold(min_score)

----------------------------------------------------------------------------
(* Properties of the phrase overlap *)

\* number of alphabetic tokens of a document
AlphaCount(doc) == Cardinality({ k \in 1..Len(doc) : doc[k].is_alpha })

\* the divisions executed inside compute_phrase_overlap
OverlapDivisions == SubSeq(divisors, Len(PatternDivisors) + 1, Len(divisors))

\* C21 - No division by zero in scoring: every divisor used by
\* _score_patterns and compute_phrase_overlap (and so by rerank_chunks) is
\* >= 1; an n-gram set is empty exactly when its text has fewer than two
\* alphabetic tokens; when either set is empty compute_phrase_overlap returns
\* 0.0 without dividing, and otherwise it returns after dividing by
\* min(|query n-grams|, |chunk n-grams|) >= 1.
C21_NoDivisionByZero ==
    /\ \A k \in 1..Len(divisors) : divisors[k] >= 1
    /\ query_phrases # None => (query_phrases[1] = {} <=> AlphaCount(query_doc) < 2)
    /\ chunk_phrases # None => (chunk_phrases[1] = {} <=> AlphaCount(chunk_doc) < 2)
    /\ pc = "overlap_done" =>
           /\ overlap_result # None
           /\ overlap_result[1].kind = "return"
           /\ IF query_phrases[1] = {} \/ chunk_phrases[1] = {}
              THEN /\ overlap_result = Returned(0)
                   /\ OverlapDivisions = <<>>
              ELSE /\ Len(OverlapDivisions) >= 1
                   /\ OverlapDivisions[1]
                          = Min2(Cardinality(query_phrases[1]), Cardinality(chunk_phrases[1]))
                   /\ OverlapDivisions[1] >= 1

\* C21 witness: the query has n-grams, the candidate text has two tokens of
\* which only one is alphabetic, and the call has returned 0.0.
C21_Witness ==
    /\ pc = "overlap_done"
    /\ query_phrases[1] # {}
    /\ Len(chunk_doc) >= 2
    /\ chunk_phrases[1] = {}
    /\ overlap_result = Returned(0)
    /\ Len(divisors) = Len(PatternDivisors)

\* the alphabetic lemma tokens of a document, in order
LemmaTokens(doc) ==
    LET keep == { k \in 1..Len(doc) : doc[k].is_alpha }
        pos(j) == CHOOSE k \in keep : Cardinality({ m \in keep : m < k }) = j - 1
    IN  [j \in 1..Cardinality(keep) |-> doc[pos(j)].lemma_]

\* all contiguous n-grams of 2 to 5 tokens, each a token sequence
NGrams(tokens) ==
    { SubSeq(tokens, s, e) : s \in 1..Len(tokens), e \in 1..Len(tokens) } \
        { g \in { SubSeq(tokens, s, e) : s \in 1..Len(tokens), e \in 1..Len(tokens) } :
            Len(g) < 2 \/ Len(g) > 5 }

\* C25 - Phrase n-grams: compute_phrase_overlap compares the sets of all
\* contiguous n-grams of 2 to 5 alphabetic lemma tokens of the query and of
\* the candidate text, each n-gram written as its tokens joined by one space;
\* the phrase score is 0 exactly when the two texts share no n-gram, and
\* otherwise it is > 0 and <= 1, with |intersection| <= min(|query set|,
\* |chunk set|), i.e. raw <= 1.
C25_PhraseNGrams ==
    pc = "overlap_done" =>
        LET qg == NGrams(LemmaTokens(query_doc))
            cg == NGrams(LemmaTokens(chunk_doc))
        IN  /\ query_phrases[1] = { Join(g) : g \in qg }
            /\ chunk_phrases[1] = { Join(g) : g \in cg }
            /\ Cardinality(query_phrases[1]) = Cardinality(qg)
            /\ Cardinality(chunk_phrases[1]) = Cardinality(cg)
            /\ overlap_result[1].kind = "return"
            /\ (overlap_result[1].value = 0 <=> qg \cap cg = {})
            /\ qg \cap cg # {} =>
                   /\ overlap_result[1].value > 0
                   /\ overlap_result[1].value <= ScoreUnit
                   /\ Cardinality(query_phrases[1] \cap chunk_phrases[1]) = Cardinality(qg \cap cg)
                   /\ Cardinality(qg \cap cg) <= Min2(Cardinality(qg), Cardinality(cg))

\* C25 witness: the query and the candidate text both have n-grams and have a
\* word in common, but no n-gram, and the score returned is 0.
C25_Witness ==
    /\ pc = "overlap_done"
    /\ query_phrases[1] # {}
    /\ chunk_phrases[1] # {}
    /\ \E k \in 1..Len(query_doc) : \E j \in 1..Len(chunk_doc) :
           query_doc[k].is_alpha /\ query_doc[k] = chunk_doc[j]
    /\ query_phrases[1] \cap chunk_phrases[1] = {}
    /\ overlap_result = Returned(0)

----------------------------------------------------------------------------
(* Properties of the query-serving process *)

\* C30 - One normalization model per process: over a sequential series of
\* retrieve_chunks / rerank_chunks calls the model is constructed at most
\* once in total, and preprocess_query and extract_phrases obtain the same
\* handle.
C30_OneModelPerProcess ==
    /\ constructed <= 1
    /\ (preprocess_nlp # None /\ extract_nlp # None) => preprocess_nlp = extract_nlp

====
